---- MODULE Spec2Model ----
(***************************************************************************)
(* nas-google-sync: the photo catalog (models/database), the takeout       *)
(* import with duplicate resolution, the transfer run (syncToSynology)     *)
(* and the two-phase album fix (fixAlbumsRetroactively), as one operator   *)
(* driving sequential CLI commands against one catalog and one NAS.        *)
(***************************************************************************)
EXTENDS Integers, Sequences, FiniteSets, TLC

\* ------------------------------------------------------------------------
\* Bounds of the model
\* ------------------------------------------------------------------------
\* longest scan result handed to one import
MaxArchive == 2
\* largest --limit value tried (0 stands for "no limit given")
MaxLimit == 1
\* number of photos of the large album of the album-reconciliation runs
BigAlbum == 1200
\* longest scan result of the imports over the archive with name clashes
MaxScan == 3
MaxRequests == 3
MaxName == 4
\* largest number of distinct file names handed to batchFindPhotoIds
MaxFiles == 6
\* longest folder name enumerated for extractAlbumName
MaxSegment == 4

\* ------------------------------------------------------------------------
\* The world: accounts, the archive tree, the items of the remote store
\* ------------------------------------------------------------------------
GoogleAccounts == {"g1"}
SynologyAccounts == <<"s1">>
\* config.accountPairings: google account -> synology account
Pairing == [g \in GoogleAccounts |-> "s1"]
PhotoLibraryPath == [s \in {"s1"} |-> "/homes/s1/Photos"]

\* SQL NULL of a text column / of the integer column synology_photo_id
NULL == "NULL"
NoId == -1

\* media files of the archive tree as processMediaFile reports them: filePath is
\* <<folder under the root, file name>>, creationTime <<day, time of day>>
TakeoutFiles ==
  { [filePath |-> <<"trip", "IMG1.jpg">>, filename |-> "IMG1.jpg", creationTime |-> <<1, 1>>,
     hash |-> "h1", albumName |-> "trip"],
    [filePath |-> <<"", "IMG1.jpg">>, filename |-> "IMG1.jpg", creationTime |-> <<1, 1>>,
     hash |-> "h1", albumName |-> NULL],
    [filePath |-> <<"trip", "b.jpg">>, filename |-> "b.jpg", creationTime |-> <<2, 0>>,
     hash |-> "h2", albumName |-> "trip"] }

\* items the remote store can hold (SynologyPhoto): space is "shared" or the
\* owning account's personal space
RemoteItems ==
  { [id |-> 1, filename |-> "IMG1.jpg", time |-> <<1, 2>>, space |-> "s1"],
    [id |-> 2, filename |-> "b.jpg", time |-> <<2, 0>>, space |-> "shared"] }

\* album names in ascending text order (ORDER BY album_name)
AlbumNames == <<"trip">>
\* the id the remote store gives an album of that name
RemoteAlbumId == [n \in {"trip"} |-> 7]

\* String.prototype.toLowerCase on the file names of the world
ToLowerCase(s) ==
  CASE s = "IMG1.jpg" -> "img1.jpg"
    [] OTHER -> s

\* ------------------------------------------------------------------------
\* Sequence helpers
\* ------------------------------------------------------------------------
Range(s) == {s[k] : k \in 1..Len(s)}

Min(a, b) == IF a < b THEN a ELSE b

Max(a, b) == IF a > b THEN a ELSE b

\* Array.prototype.slice(from, to) with 0-based from, exclusive to
Slice(s, from, to) == SubSeq(s, from + 1, Min(to, Len(s)))

\* all orderings of a finite set without repetition
SeqsOf(S) == {s \in [1..Cardinality(S) -> S] : Range(s) = S}

\* string comparison of two ISO timestamps
TimeLeq(a, b) == a[1] < b[1] \/ (a[1] = b[1] /\ a[2] <= b[2])

VARIABLES
  photos,       \* table photos: a set of rows
  albums,       \* table albums
  albumItems,   \* table album_items
  remote,       \* items present (indexed) in the remote store
  remoteAlbums, \* names of the albums of the remote store
  sid,          \* per synology service: holds a session token
  pc,           \* the command in progress
  run,          \* locals of the command in progress
  uploadOK,     \* history: ids whose uploadPhoto call returned true
  dupInRemote,  \* history: ids an import classified duplicate-in-remote
  chunkOK,      \* history: <<account, album, id>> sent in an add_item request that succeeded
  lastEvent     \* history: the step just taken

vars == <<photos, albums, albumItems, remote, remoteAlbums, sid, pc, run,
          uploadOK, dupInRemote, chunkOK, lastEvent>>

\* ------------------------------------------------------------------------
\* models/database
\* ------------------------------------------------------------------------
Ids(table) == {r.id : r \in table}

Row(table, id) == CHOOSE r \in table : r.id = id

\* a variant of insertPhoto with a plain INSERT that resolves no conflict
insertPhotoKeepingOld(table, rec) == table \cup {rec}

\* INSERT OR REPLACE INTO photos: rows in conflict with the new row on the
\* PRIMARY KEY id or on UNIQUE(source, synology_path) are deleted first
insertPhoto(table, rec) ==
  {r \in table : /\ r.id # rec.id
                 /\ ~(r.source = rec.source /\ r.synologyPath = rec.synologyPath)}
    \cup {rec}

\* a variant of markAsBackedUp that sets can_be_removed only
markAsRemovable(table, photoId) ==
  {IF r.id = photoId THEN [r EXCEPT !.canBeRemoved = TRUE] ELSE r : r \in table}

\* UPDATE photos SET is_backed_up = 1, can_be_removed = 1 WHERE id = ?
markAsBackedUp(table, photoId) ==
  {IF r.id = photoId THEN [r EXCEPT !.isBackedUp = TRUE, !.canBeRemoved = TRUE] ELSE r
     : r \in table}

\* UPDATE photos SET synology_photo_id = ? WHERE id = ?
updatePhotoSynologyId(table, photoId, synologyPhotoId) ==
  {IF r.id = photoId THEN [r EXCEPT !.synologyPhotoId = synologyPhotoId] ELSE r
     : r \in table}

\* rows sorted by creation_time; rows with equal creation_time in any order
OrderedByTime(rows) ==
  {s \in SeqsOf(rows) : \A i, j \in 1..Len(s) : i < j => TimeLeq(s[i].creationTime, s[j].creationTime)}

\* WHERE source = 'google' AND is_backed_up = 0 [AND account_name = ?]
NotBackedUpRows(table, accountName) ==
  {r \in table : r.source = "google" /\ ~r.isBackedUp /\ r.accountName = accountName}

getPhotosNotBackedUp(table, accountName) == OrderedByTime(NotBackedUpRows(table, accountName))

\* WHERE source = 'google' AND account_name = ? AND is_backed_up = 1 AND
\* album_name IS NOT NULL AND album_name != '' AND synology_photo_id IS NULL
NeedingSynologyIdRows(table, accountName) ==
  {r \in table : /\ r.source = "google" /\ r.accountName = accountName
                 /\ r.isBackedUp
                 /\ r.albumName # NULL /\ r.albumName # ""
                 /\ r.synologyPhotoId = NoId}

AlbumRank(name) == CHOOSE k \in 1..Len(AlbumNames) : AlbumNames[k] = name

\* ORDER BY album_name, creation_time
OrderedByAlbumTime(rows) ==
  {s \in SeqsOf(rows) : \A i, j \in 1..Len(s) : i < j =>
     \/ AlbumRank(s[i].albumName) < AlbumRank(s[j].albumName)
     \/ /\ s[i].albumName = s[j].albumName
        /\ TimeLeq(s[i].creationTime, s[j].creationTime)}

getPhotosNeedingSynologyId(table, accountName) ==
  OrderedByAlbumTime(NeedingSynologyIdRows(table, accountName))

\* ... AND synology_photo_id IS NOT NULL AND NOT EXISTS (an album_items row of
\* the photo joined to an albums row named like the photo's album, same account)
NeedingAlbumSyncRows(table, albumTable, items, accountName) ==
  {r \in table : /\ r.source = "google" /\ r.accountName = accountName
                 /\ r.isBackedUp
                 /\ r.albumName # NULL /\ r.albumName # ""
                 /\ r.synologyPhotoId # NoId
                 /\ ~\E ai \in items : \E a \in albumTable :
                       /\ ai.albumId = a.id /\ ai.photoId = r.id
                       /\ a.name = r.albumName /\ a.accountName = r.accountName}

getPhotosNeedingAlbumSync(table, albumTable, items, accountName) ==
  OrderedByAlbumTime(NeedingAlbumSyncRows(table, albumTable, items, accountName))

\* SELECT * FROM albums WHERE account_name = ? AND name = ?
getAlbumByName(albumTable, accountName, albumName) ==
  {a \in albumTable : a.accountName = accountName /\ a.name = albumName}

\* INSERT INTO albums violates UNIQUE(account_name, synology_album_id)
AlbumInsertConflicts(albumTable, accountName, synologyAlbumId) ==
  \E a \in albumTable : a.accountName = accountName /\ a.synologyAlbumId = synologyAlbumId

\* getOrCreateAlbum of the database: the table after the call (AUTOINCREMENT id)
getOrCreateAlbum(albumTable, accountName, albumName, synologyAlbumId) ==
  IF getAlbumByName(albumTable, accountName, albumName) # {}
  THEN albumTable
  ELSE albumTable \cup {[id |-> Cardinality(albumTable) + 1, synologyAlbumId |-> synologyAlbumId,
                         accountName |-> accountName, name |-> albumName]}

\* INSERT OR IGNORE INTO album_items (UNIQUE(album_id, photo_id))
AlbumItemRow(photoId, albumId) == [albumId |-> albumId, photoId |-> photoId]

addPhotoToAlbum(items, photoId, albumId) == items \cup {AlbumItemRow(photoId, albumId)}

\* ------------------------------------------------------------------------
\* services/google-takeout: catalog rows of an import
\* ------------------------------------------------------------------------
TakeoutId(accountName, hash) == <<"takeout", accountName, hash>>

TakeoutRecord(accountName, photo, backedUp) ==
  [id |-> TakeoutId(accountName, photo.hash), source |-> "google",
   accountName |-> accountName, filename |-> photo.filename,
   creationTime |-> photo.creationTime, hash |-> photo.hash,
   synologyPath |-> photo.filePath, isBackedUp |-> backedUp,
   canBeRemoved |-> backedUp, albumName |-> photo.albumName,
   synologyPhotoId |-> NoId]

RECURSIVE InsertAll(_, _)
InsertAll(table, recs) ==
  IF recs = <<>> THEN table
  ELSE InsertAll(insertPhoto(table, Head(recs)), Tail(recs))

\* a variant of importAsBackedUp that writes isBackedUp: false
importAsBackedUpPending(table, accountName, dupPhotos) ==
  InsertAll(table, [k \in 1..Len(dupPhotos) |-> TakeoutRecord(accountName, dupPhotos[k], FALSE)])

\* a variant of importToDatabase that writes isBackedUp: true
importToDatabaseMarked(table, accountName, newPhotos) ==
  InsertAll(table, [k \in 1..Len(newPhotos) |-> TakeoutRecord(accountName, newPhotos[k], TRUE)])

\* isBackedUp: false, canBeRemoved: false
importToDatabase(table, accountName, newPhotos) ==
  InsertAll(table, [k \in 1..Len(newPhotos) |-> TakeoutRecord(accountName, newPhotos[k], FALSE)])

\* isBackedUp: true, canBeRemoved: true
importAsBackedUp(table, accountName, dupPhotos) ==
  InsertAll(table, [k \in 1..Len(dupPhotos) |-> TakeoutRecord(accountName, dupPhotos[k], TRUE)])

\* ------------------------------------------------------------------------
\* services/sync-service: duplicate resolution of an import
\* ------------------------------------------------------------------------
\* new Date(dateStr).toISOString().split('T')[0]
normalizeDate(creationTime) == creationTime[1]

FilenameDateKey(filename, creationTime) ==
  <<ToLowerCase(filename), normalizeDate(creationTime)>>

getAllSynologyPhotoHashes(table) ==
  {r.hash : r \in {x \in table : x.source = "synology" /\ x.hash # NULL /\ x.hash # ""}}

getAllSynologyPhotosByFilenameDate(table) ==
  {FilenameDateKey(r.filename, r.creationTime) : r \in {x \in table : x.source = "synology"}}

\* a variant of the remote test that wants both predicates to match
IsDuplicateInSynologyBoth(hashMatch, filenameDateMatch) == hashMatch /\ filenameDateMatch

\* if (hashMatch || filenameDateMatch)
IsDuplicateInSynology(hashMatch, filenameDateMatch) == hashMatch \/ filenameDateMatch

\* a variant of the in-scan test that looks at the file name and day only
IsDuplicateInTakeoutByName(hashSeen, filenameDateSeen) == filenameDateSeen

\* else if (seenTakeoutHashes.has(photo.hash) || seenTakeoutFilenameDate.has(filenameDateKey))
IsDuplicateInTakeout(hashSeen, filenameDateSeen) == hashSeen \/ filenameDateSeen

\* a variant of the in-scan branch that keeps the photo as new as well
CountDuplicateInTakeoutAndKeep(acc, photo) ==
  [acc EXCEPT !.duplicatesInTakeout = @ + 1, !.newPhotos = Append(@, photo)]

\* result.duplicatesInTakeout++
CountDuplicateInTakeout(acc, photo) == [acc EXCEPT !.duplicatesInTakeout = @ + 1]

\* the loop over scanResult.photos from position k on
RECURSIVE Classify(_, _, _, _, _, _, _)
Classify(scan, k, synologyByHash, synologyByFilenameDate, seenHashes, seenFilenameDate, acc) ==
  IF k > Len(scan) THEN acc
  ELSE LET photo == scan[k]
           key == FilenameDateKey(photo.filename, photo.creationTime)
           hashMatch == photo.hash \in synologyByHash
           filenameDateMatch == key \in synologyByFilenameDate
       IN IF IsDuplicateInSynology(hashMatch, filenameDateMatch)
          THEN Classify(scan, k + 1, synologyByHash, synologyByFilenameDate,
                        seenHashes, seenFilenameDate,
                        [acc EXCEPT !.alreadyBackedUp = Append(@, photo),
                                    !.duplicatesInSynology = @ + 1])
          ELSE IF IsDuplicateInTakeout(photo.hash \in seenHashes, key \in seenFilenameDate)
          THEN Classify(scan, k + 1, synologyByHash, synologyByFilenameDate,
                        seenHashes, seenFilenameDate,
                        CountDuplicateInTakeout(acc, photo))
          ELSE Classify(scan, k + 1, synologyByHash, synologyByFilenameDate,
                        seenHashes \cup {photo.hash}, seenFilenameDate \cup {key},
                        [acc EXCEPT !.newPhotos = Append(@, photo)])

ClassifyScan(table, scan) ==
  Classify(scan, 1, getAllSynologyPhotoHashes(table), getAllSynologyPhotosByFilenameDate(table),
           {}, {},
           [newPhotos |-> <<>>, alreadyBackedUp |-> <<>>,
            duplicatesInSynology |-> 0, duplicatesInTakeout |-> 0])

\* the ImportResult importFromTakeout returns
ImportResultOf(table, scan) ==
  LET c == ClassifyScan(table, scan)
  IN [totalScanned |-> Len(scan), newPhotos |-> Len(c.newPhotos),
      duplicatesInSynology |-> c.duplicatesInSynology,
      duplicatesInTakeout |-> c.duplicatesInTakeout]

\* the catalog after importFromTakeout
ImportedCatalog(table, accountName, scan) ==
  LET c == ClassifyScan(table, scan)
  IN importAsBackedUp(importToDatabase(table, accountName, c.newPhotos),
                      accountName, c.alreadyBackedUp)

\* scan results: the media files of an archive tree in collection order
Archives ==
  UNION {{s \in [1..n -> TakeoutFiles] : \A i, j \in 1..n : i # j => s[i] # s[j]}
           : n \in 1..MaxArchive}

\* ------------------------------------------------------------------------
\* services/synology-photos: rows of a remote scan
\* ------------------------------------------------------------------------
\* sha256 over filename|filesize|time|width|height, cut to 32 hex digits: it
\* never equals the 64-digit digest of a file's content
generateContentHash(item) ==
  CASE item.id = 1 -> "m1"
    [] item.id = 3 -> "m3"
    [] item.id = 4 -> "m4"
    [] item.id = 5 -> "m5"
    [] item.id = 6 -> "m6"
    [] item.id = 7 -> "m7"
    [] OTHER -> "m2"

processPhotoRecord(accountName, item) ==
  LET shared == item.space = "shared"
  IN [id |-> IF shared THEN <<"synology-shared", item.id>>
             ELSE <<"synology", accountName, "personal", item.id>>,
      source |-> "synology",
      accountName |-> IF shared THEN "_shared" ELSE accountName,
      filename |-> item.filename,
      creationTime |-> item.time,
      hash |-> generateContentHash(item),
      synologyPath |-> IF shared THEN <<"/photo", item.filename>>
                       ELSE <<PhotoLibraryPath[accountName], item.filename>>,
      isBackedUp |-> TRUE, canBeRemoved |-> FALSE, albumName |-> NULL,
      synologyPhotoId |-> item.id]

\* ------------------------------------------------------------------------
\* State of a command
\* ------------------------------------------------------------------------
IdleRun ==
  [acct |-> "", limit |-> 0, dryRun |-> FALSE, batchSize |-> 1,
   queue |-> <<>>, i |-> 0, synced |-> 0, failed |-> 0, skipped |-> 0,
   photoIdsFound |-> 0, errors |-> 0, processed |-> 0, addedToAlbums |-> 0,
   albumsCreated |-> 0, truncated |-> FALSE, unavailable |-> FALSE, again |-> "no",
   albumQueue |-> <<>>, a |-> 0, b |-> 0, synologyAlbumId |-> 0, albumRecordId |-> 0,
   albumPhotos |-> <<>>, calls |-> <<>>,
   batchSizeOption |-> 1, batches |-> <<>>, reported |-> <<>>]

Event(op, acct, ids, outcome) == [op |-> op, acct |-> acct, ids |-> ids, outcome |-> outcome]

LoggedOut == [s \in Range(SynologyAccounts) |-> FALSE]

\* options.limit: 0 stands for an absent (or zero, hence falsy) limit
Limits == 0..MaxLimit

\* limit ? list.slice(0, limit) : list
ApplyLimit(list, limit) == IF limit # 0 THEN Slice(list, 0, limit) ELSE list

IdsOf(rows) == [k \in 1..Len(rows) |-> rows[k].id]

Init ==
  /\ photos = {}
  /\ albums = {}
  /\ albumItems = {}
  /\ remote = {}
  /\ remoteAlbums = {}
  /\ sid = LoggedOut
  /\ pc = "idle"
  /\ run = IdleRun
  /\ uploadOK = {}
  /\ dupInRemote = {}
  /\ chunkOK = {}
  /\ lastEvent = Event("init", "", <<>>, "")

\* ------------------------------------------------------------------------
\* The remote store changes on its own: an uploaded file gets indexed, a user
\* adds a photo
\* ------------------------------------------------------------------------
RemoteAppear(item) ==
  /\ pc = "idle"
  /\ item \notin remote
  /\ remote' = remote \cup {item}
  /\ lastEvent' = Event("remote", "", <<>>, "")
  /\ UNCHANGED <<photos, albums, albumItems, remoteAlbums, sid, pc, run,
                 uploadOK, dupInRemote, chunkOK>>

\* ------------------------------------------------------------------------
\* import command: SyncService.importFromTakeout
\* ------------------------------------------------------------------------
ImportFromTakeout(accountName, scan) ==
  /\ pc = "idle"
  /\ photos' = ImportedCatalog(photos, accountName, scan)
  /\ dupInRemote' = dupInRemote \cup
       {TakeoutId(accountName, p.hash) : p \in Range(ClassifyScan(photos, scan).alreadyBackedUp)}
  /\ lastEvent' = LET files == [k \in 1..Len(scan) |-> scan[k].filePath]
                  IN Event("import", accountName, files,
                           IF /\ lastEvent.op = "import" /\ lastEvent.acct = accountName
                              /\ lastEvent.ids = files
                           THEN "again" ELSE "")
  /\ UNCHANGED <<albums, albumItems, remote, remoteAlbums, sid, pc, run, uploadOK, chunkOK>>

\* ------------------------------------------------------------------------
\* scan command: authenticateAll, SyncService.scanSynology, cleanup
\* ------------------------------------------------------------------------
\* scanAllPhotos of one service: the personal space, then the shared space;
\* a space whose listing fails contributes nothing
ScannedCatalog(table, accountName, personal, shared) ==
  InsertAll(InsertAll(table, [k \in 1..Len(personal) |-> processPhotoRecord(accountName, personal[k])]),
            [k \in 1..Len(shared) |-> processPhotoRecord(accountName, shared[k])])

ScanSynology(authOK) ==
  /\ pc = "idle"
  /\ \E personalOK, sharedOK \in BOOLEAN :
       \E personal \in SeqsOf({it \in remote : it.space = SynologyAccounts[1]}),
          shared \in SeqsOf({it \in remote : it.space = "shared"}) :
         photos' = IF authOK
                   THEN ScannedCatalog(photos, SynologyAccounts[1],
                                       IF personalOK THEN personal ELSE <<>>,
                                       IF sharedOK THEN shared ELSE <<>>)
                   ELSE photos
  /\ lastEvent' = Event("scan", "", <<>>, "")
  /\ UNCHANGED <<albums, albumItems, remote, remoteAlbums, sid, pc, run, uploadOK, dupInRemote, chunkOK>>

\* ------------------------------------------------------------------------
\* sync command: authenticateAll, SyncService.syncToSynology, cleanup
\* ------------------------------------------------------------------------
SyncStart(accountName, limit, dryRun, authOK) ==
  /\ pc = "idle"
  /\ \E all \in getPhotosNotBackedUp(photos, accountName) :
       run' = [IdleRun EXCEPT !.acct = accountName, !.limit = limit, !.dryRun = dryRun,
                              !.queue = IdsOf(ApplyLimit(all, limit))]
  /\ sid' = [sid EXCEPT ![Pairing[accountName]] = authOK]
  /\ pc' = "sync"
  /\ lastEvent' = Event("sync_start", accountName, run'.queue, "")
  /\ UNCHANGED <<photos, albums, albumItems, remote, remoteAlbums, uploadOK, dupInRemote, chunkOK>>

\* a variant of the success test that never marks
MarksBackedUpNever(outcome) == FALSE

\* a variant of the success test that also marks in a dry run
MarksBackedUpAlsoDry(outcome) == outcome \in {"uploaded", "dry"}

\* a variant of the failure count that leaves a thrown upload uncounted
CountsFailedOnFalseOnly(outcome) == outcome = "upload_failed"

\* else { failed++ } and catch (error) { failed++ }
CountsFailed(outcome) == outcome \in {"upload_threw", "upload_failed"}

\* if (success) { ... markAsBackedUp(photo.id) ... }: a variant that also marks
\* after an upload that answered false
MarksBackedUpUnlessThrown(outcome) == outcome \in {"uploaded", "upload_failed"}

\* if (success) { ... markAsBackedUp(photo.id) ... }
MarksBackedUp(outcome) == outcome = "uploaded"

\* one iteration of the loop over photosToSync; fileExists is fs.existsSync of
\* the stored path, upload the result of the upload request
SyncItem(fileExists, upload) ==
  /\ pc = "sync"
  /\ run.i < Len(run.queue)
  /\ LET id == run.queue[run.i + 1]
         outcome ==
           IF ~fileExists THEN "missing"
           ELSE IF run.dryRun THEN "dry"
           ELSE IF ~sid[Pairing[run.acct]] THEN "upload_threw"
           ELSE upload
     IN /\ photos' = IF MarksBackedUp(outcome) THEN markAsBackedUp(photos, id) ELSE photos
        /\ uploadOK' = IF outcome = "uploaded" THEN uploadOK \cup {id} ELSE uploadOK
        /\ run' = [run EXCEPT !.i = @ + 1,
                              !.skipped = IF outcome = "missing" THEN @ + 1 ELSE @,
                              !.synced = IF outcome \in {"dry", "uploaded"} THEN @ + 1 ELSE @,
                              !.failed = IF CountsFailed(outcome) THEN @ + 1 ELSE @]
        /\ lastEvent' = Event("sync_item", run.acct, <<id>>, outcome)
  /\ UNCHANGED <<albums, albumItems, remote, remoteAlbums, sid, pc, dupInRemote, chunkOK>>

SyncEnd ==
  /\ pc = "sync"
  /\ run.i = Len(run.queue)
  /\ pc' = "idle"
  /\ run' = IdleRun
  /\ sid' = LoggedOut
  /\ lastEvent' = Event("sync_end", "", <<>>, "")
  /\ UNCHANGED <<photos, albums, albumItems, remote, remoteAlbums, uploadOK, dupInRemote, chunkOK>>

\* ------------------------------------------------------------------------
\* fix-albums command: authenticateAll, SyncService.fixAlbumsRetroactively,
\* cleanup
\* ------------------------------------------------------------------------
\* default of options.batchSize
DefaultBatchSize == 100
\* default chunkSize of SynologyPhotosService.addItemsToAlbum
DefaultChunkSize == 500

BatchSizeOptions == {1, DefaultBatchSize}

\* a variant that lets a batch size of zero through
ClampBatchSizeToZero(batchSize) == Max(0, batchSize)

\* Math.max(1, Math.floor(options.batchSize ?? 100))
ClampBatchSize(batchSize) == Max(1, batchSize)

\* number of add_item requests addItemsToAlbum plans for n photo ids
NumChunks(n, chunkSize) == (n + chunkSize - 1) \div chunkSize

\* addItemsToAlbum: requests are issued chunk by chunk until one fails; the
\* result is true when no request failed. responses[c] is the remote store's
\* answer to the request for chunk c, were it issued
AddItemsCalls(n, chunkSize, responses) ==
  IF \E c \in 1..NumChunks(n, chunkSize) : ~responses[c]
  THEN CHOOSE c \in 1..NumChunks(n, chunkSize) :
         ~responses[c] /\ \A d \in 1..(c - 1) : responses[d]
  ELSE NumChunks(n, chunkSize)

addItemsToAlbum(n, chunkSize, responses) ==
  \A c \in 1..NumChunks(n, chunkSize) : responses[c]

FixStart(accountName, limit, batchSize, dryRun, authOK) ==
  /\ pc = "idle"
  /\ \E all \in getPhotosNeedingSynologyId(photos, accountName) :
       run' = [IdleRun EXCEPT !.acct = accountName, !.limit = limit, !.dryRun = dryRun,
                              !.batchSize = ClampBatchSize(batchSize),
                              !.batchSizeOption = batchSize,
                              !.reported = IF lastEvent.op = "fix_end" /\ Len(lastEvent.ids) > 3
                                           THEN lastEvent.ids ELSE <<>>,
                              !.queue = IdsOf(ApplyLimit(all, limit)),
                              !.truncated = limit # 0 /\ Len(all) > limit,
                              !.again = IF /\ lastEvent.op = "fix_end"
                                           /\ lastEvent.acct = accountName
                                           /\ lastEvent.ids = <<limit, ClampBatchSize(batchSize), dryRun>>
                                        THEN lastEvent.outcome ELSE "no"]
  /\ sid' = [sid EXCEPT ![Pairing[accountName]] = authOK]
  /\ pc' = "fix1"
  /\ lastEvent' = Event("fix_start", accountName, run'.queue, "")
  /\ UNCHANGED <<photos, albums, albumItems, remote, remoteAlbums, uploadOK, dupInRemote, chunkOK>>

\* what the search request of one lookup brings back: a listing, the error code
\* 101, 102 or 103 (search API not available), or any other failure (another
\* error code, a transport error)
LookupAnswers == {"listed", "unavailable", "failed"}

\* else { result.skipped++ }: findPhotoByFilename returned null
CountsSkipped(outcome) == outcome \in {"not_found", "unavailable"}

\* a variant that counts a search without a match as an error too
CountsErrorAlsoNotFound(outcome) == outcome \in {"lookup_threw", "not_found"}

\* catch (error) { result.errors++ }
CountsError(outcome) == outcome = "lookup_threw"

\* Phase 1, one iteration: findPhotoByFilename answers with the id of an item
\* of that exact file name, with null, or throws
FixLookup(answer) ==
  /\ pc = "fix1"
  /\ run.i < Len(run.queue)
  /\ LET id == run.queue[run.i + 1]
         matches == {it \in remote : it.filename = Row(photos, id).filename}
     IN \E found \in IF matches = {} THEN {NoId} ELSE {it.id : it \in matches} :
          LET outcome ==
                IF ~sid[Pairing[run.acct]] \/ answer = "failed" THEN "lookup_threw"
                ELSE IF answer = "unavailable" THEN "unavailable"
                ELSE IF found = NoId THEN "not_found"
                ELSE "found"
          IN /\ photos' = IF outcome = "found" /\ ~run.dryRun
                          THEN updatePhotoSynologyId(photos, id, found)
                          ELSE photos
             /\ run' = [run EXCEPT !.i = @ + 1,
                                   !.photoIdsFound = IF outcome = "found" THEN @ + 1 ELSE @,
                                   !.skipped = IF CountsSkipped(outcome) THEN @ + 1 ELSE @,
                                   !.errors = IF CountsError(outcome) THEN @ + 1 ELSE @,
                                   !.unavailable = @ \/ outcome = "unavailable"]
             /\ lastEvent' = Event("fix_lookup", run.acct, <<id>>, outcome)
  /\ UNCHANGED <<albums, albumItems, remote, remoteAlbums, sid, pc, uploadOK, dupInRemote, chunkOK>>

\* album names of a list of rows in order of first occurrence (Map insertion order)
RECURSIVE AlbumsInOrder(_)
AlbumsInOrder(rows) ==
  IF rows = <<>> THEN <<>>
  ELSE LET rest == AlbumsInOrder(SubSeq(rows, 1, Len(rows) - 1))
           name == rows[Len(rows)].albumName
       IN IF name \in Range(rest) THEN rest ELSE Append(rest, name)

\* Phase 2 query: photos with an id and an album but no membership, grouped
FixPhase2 ==
  /\ pc = "fix1"
  /\ run.i = Len(run.queue)
  /\ \E all \in getPhotosNeedingAlbumSync(photos, albums, albumItems, run.acct) :
       run' = [run EXCEPT !.queue = IdsOf(ApplyLimit(all, run.limit)),
                          !.i = 0,
                          !.truncated = @ \/ (run.limit # 0 /\ Len(all) > run.limit),
                          !.albumQueue = AlbumsInOrder(ApplyLimit(all, run.limit)),
                          !.a = 0, !.b = 0]
  /\ pc' = "fix2"
  /\ lastEvent' = Event("fix_phase2", run.acct, run'.queue, "")
  /\ UNCHANGED <<photos, albums, albumItems, remote, remoteAlbums, sid, uploadOK, dupInRemote, chunkOK>>

\* photosByAlbum.get(albumName): ids of the run's photos of that album
PhotosOfAlbum(albumName) ==
  SelectSeq(run.queue, LAMBDA id : Row(photos, id).albumName = albumName)

\* one album: listAlbums and get-or-create in the remote store, then the
\* local album record; remoteOK is whether both remote requests succeeded
FixAlbum(remoteOK) ==
  /\ pc = "fix2"
  /\ run.a < Len(run.albumQueue)
  /\ LET albumName == run.albumQueue[run.a + 1]
         n == Len(PhotosOfAlbum(albumName))
         synologyAlbumId == RemoteAlbumId[albumName]
         localThrows == /\ getAlbumByName(albums, run.acct, albumName) = {}
                        /\ AlbumInsertConflicts(albums, run.acct, synologyAlbumId)
         outcome ==
           IF run.dryRun THEN "dry"
           ELSE IF ~sid[Pairing[run.acct]] \/ ~remoteOK THEN "album_threw"
           ELSE IF localThrows THEN "album_record_threw"
           ELSE "ok"
     IN /\ remoteAlbums' = IF outcome \in {"ok", "album_record_threw"}
                           THEN remoteAlbums \cup {albumName} ELSE remoteAlbums
        /\ albums' = IF outcome = "ok"
                     THEN getOrCreateAlbum(albums, run.acct, albumName, synologyAlbumId)
                     ELSE albums
        /\ run' = IF outcome \in {"ok", "dry"}
                  THEN [run EXCEPT
                          !.albumsCreated = IF outcome = "ok" /\ albumName \notin remoteAlbums
                                            THEN @ + 1 ELSE @,
                          !.synologyAlbumId = IF outcome = "ok" THEN synologyAlbumId ELSE 0,
                          !.albumRecordId =
                             IF outcome = "ok"
                             THEN (CHOOSE r \in getAlbumByName(albums', run.acct, albumName) : TRUE).id
                             ELSE 0,
                          !.albumPhotos = PhotosOfAlbum(albumName),
                          !.b = 0]
                  ELSE [run EXCEPT !.errors = @ + n, !.processed = @ + n, !.a = @ + 1]
        /\ pc' = IF outcome \in {"ok", "dry"} THEN "fix2b" ELSE "fix2"
        /\ lastEvent' = Event("fix_album", run.acct, PhotosOfAlbum(albumName), outcome)
  /\ UNCHANGED <<photos, albumItems, remote, sid, uploadOK, dupInRemote, chunkOK>>

\* a variant of the loop after a successful addItemsToAlbum that records the
\* first photo of the batch only
AddFirstToAlbum(items, batch, albumId) ==
  IF batch = <<>> THEN items ELSE addPhotoToAlbum(items, Head(batch), albumId)

\* for (const photo of batch) addPhotoToAlbum(photo.id, albumRecord.id)
AddAllToAlbum(items, batch, albumId) ==
  items \cup {AlbumItemRow(batch[k], albumId) : k \in 1..Len(batch)}

\* if (success) { ... addPhotoToAlbum ... } else { result.errors += batch.length }:
\* a variant that records whatever addItemsToAlbum answered
RecordsMembershipAlways(outcome) == outcome \in {"added", "add_failed"}

\* if (success) { ... addPhotoToAlbum ... }
RecordsMembership(outcome) == outcome = "added"

\* 1-based positions of a batch that chunk c of addItemsToAlbum carries
ChunkPositions(n, chunkSize, c) ==
  {k \in 1..n : (k - 1) \div chunkSize + 1 = c}

\* one batch of the album in progress: photos.slice(i, i + batchSize) goes to
\* addItemsToAlbum, which splits it into chunks of DefaultChunkSize
FixBatch ==
  /\ pc = "fix2b"
  /\ LET albumName == run.albumQueue[run.a + 1]
         photosOf == run.albumPhotos
         batch == Slice(photosOf, run.b, run.b + run.batchSize)
         last == run.b + run.batchSize >= Len(photosOf)
     IN \E responses \in [1..NumChunks(Len(batch), DefaultChunkSize) -> BOOLEAN] :
          LET issued == AddItemsCalls(Len(batch), DefaultChunkSize, responses)
              outcome ==
                IF run.dryRun THEN "dry"
                ELSE IF addItemsToAlbum(Len(batch), DefaultChunkSize, responses) THEN "added"
                ELSE "add_failed"
          IN /\ albumItems' = IF RecordsMembership(outcome)
                              THEN AddAllToAlbum(albumItems, batch, run.albumRecordId)
                              ELSE albumItems
             /\ chunkOK' = IF outcome = "dry" THEN chunkOK
                           ELSE chunkOK \cup
                                  {<<run.acct, albumName, batch[k]>> :
                                     k \in UNION {ChunkPositions(Len(batch), DefaultChunkSize, c) :
                                                    c \in {d \in 1..issued : responses[d]}}}
             /\ run' = [run EXCEPT
                          !.processed = @ + Len(batch),
                          !.addedToAlbums = IF outcome \in {"added", "dry"} THEN @ + Len(batch) ELSE @,
                          !.errors = IF outcome = "add_failed" THEN @ + Len(batch) ELSE @,
                          !.calls = IF outcome = "dry" THEN @
                                    ELSE @ \o [c \in 1..issued |-> responses[c]],
                          !.batches = Append(@, batch),
                          !.b = IF last THEN 0 ELSE @ + run.batchSize,
                          !.a = IF last THEN @ + 1 ELSE @]
             /\ pc' = IF last THEN "fix2" ELSE "fix2b"
             /\ lastEvent' = Event("fix_batch", run.acct, batch, outcome)
  /\ UNCHANGED <<photos, albums, remote, remoteAlbums, sid, uploadOK, dupInRemote>>

\* return result, then cleanup; report is what the event keeps of the result
FixEndWith(report) ==
  /\ pc = "fix2"
  /\ run.a = Len(run.albumQueue)
  /\ pc' = "idle"
  /\ run' = IdleRun
  /\ sid' = LoggedOut
  /\ lastEvent' = Event("fix_end", run.acct, <<run.limit, run.batchSize, run.dryRun>> \o report,
                        IF run.errors = 0 /\ ~run.truncated /\ ~run.unavailable
                        THEN "clean" ELSE "unclean")
  /\ UNCHANGED <<photos, albums, albumItems, remote, remoteAlbums, uploadOK, dupInRemote, chunkOK>>

FixEnd == FixEndWith(<<>>)

\* the process is terminated in the middle of a command
Kill ==
  /\ pc # "idle"
  /\ pc' = "idle"
  /\ run' = IdleRun
  /\ sid' = LoggedOut
  /\ lastEvent' = Event("kill", "", <<>>, "")
  /\ UNCHANGED <<photos, albums, albumItems, remote, remoteAlbums, uploadOK, dupInRemote, chunkOK>>

Next ==
  \/ \E item \in RemoteItems : RemoteAppear(item)
  \/ \E accountName \in GoogleAccounts, scan \in Archives : ImportFromTakeout(accountName, scan)
  \/ \E authOK \in BOOLEAN : ScanSynology(authOK)
  \/ \E accountName \in GoogleAccounts, limit \in Limits, dryRun, authOK \in BOOLEAN :
       SyncStart(accountName, limit, dryRun, authOK)
  \/ \E fileExists \in BOOLEAN, upload \in {"uploaded", "upload_failed", "upload_threw"} :
       SyncItem(fileExists, upload)
  \/ SyncEnd
  \/ \E accountName \in GoogleAccounts, limit \in Limits, batchSize \in BatchSizeOptions,
        dryRun, authOK \in BOOLEAN :
       FixStart(accountName, limit, batchSize, dryRun, authOK)
  \/ \E answer \in LookupAnswers : FixLookup(answer)
  \/ FixPhase2
  \/ \E remoteOK \in BOOLEAN : FixAlbum(remoteOK)
  \/ FixBatch
  \/ FixEnd
  \/ Kill

Spec == Init /\ [][Next]_vars

\* ------------------------------------------------------------------------
\* The membership phase of fix-albums over one album of many photos: the
\* catalog holds n backed-up photos of album "trip" whose remote identifiers
\* Phase 1 has stored, and the run has just grouped them (the state after
\* the Phase 2 query)
\* ------------------------------------------------------------------------
AlbumSizes == {3, DefaultChunkSize + 1, BigAlbum}

\* --batch-size values: the default, the chunk size, the whole large album
AlbumBatchSizes == {DefaultBatchSize, DefaultChunkSize, BigAlbum}

\* the k-th photo of the album: imported as a duplicate of remote item k
AlbumPhotoRow(accountName, k) ==
  [TakeoutRecord(accountName,
                 [filePath |-> <<"trip", k>>, filename |-> k, creationTime |-> <<k, 0>>,
                  hash |-> k, albumName |-> "trip"],
                 TRUE)
     EXCEPT !.synologyPhotoId = k]

AlbumCatalog(accountName, n) == {AlbumPhotoRow(accountName, k) : k \in 1..n}

InitAlbum ==
  \E accountName \in GoogleAccounts, n \in AlbumSizes, batchSize \in AlbumBatchSizes,
     dryRun \in BOOLEAN :
    /\ photos = AlbumCatalog(accountName, n)
    /\ albums = {}
    /\ albumItems = {}
    /\ remote = {}
    /\ remoteAlbums = {}
    /\ sid = [LoggedOut EXCEPT ![Pairing[accountName]] = TRUE]
    /\ pc = "fix2"
    /\ run = [IdleRun EXCEPT !.acct = accountName, !.dryRun = dryRun,
                             !.batchSize = ClampBatchSize(batchSize),
                             !.queue = [k \in 1..n |-> TakeoutId(accountName, k)],
                             !.albumQueue = <<"trip">>]
    /\ uploadOK = {}
    /\ dupInRemote = {TakeoutId(accountName, k) : k \in 1..n}
    /\ chunkOK = {}
    /\ lastEvent = Event("fix_phase2", accountName, run.queue, "")

NextAlbum ==
  \/ \E remoteOK \in BOOLEAN : FixAlbum(remoteOK)
  \/ FixBatch
  \/ FixEnd

SpecAlbum == InitAlbum /\ [][NextAlbum]_vars

\* ------------------------------------------------------------------------
\* Imports over an archive with name clashes, into a catalog that a remote
\* scan has filled: cam/IMG1.jpg has the name and day of trip/IMG1.jpg but
\* other content, cam/copy.jpg has the content of cam/IMG1.jpg
\* ------------------------------------------------------------------------
ClashFiles ==
  { [filePath |-> <<"cam", "IMG1.jpg">>, filename |-> "IMG1.jpg", creationTime |-> <<1, 3>>,
     hash |-> "h3", albumName |-> "cam"],
    [filePath |-> <<"cam", "copy.jpg">>, filename |-> "copy.jpg", creationTime |-> <<1, 3>>,
     hash |-> "h3", albumName |-> "cam"] }

ImportFiles == {f \in TakeoutFiles : f.filename = "IMG1.jpg"} \cup ClashFiles

ImportArchives ==
  UNION {{s \in [1..n -> ImportFiles] : \A i, j \in 1..n : i # j => s[i] # s[j]}
           : n \in 1..MaxScan}

ImportRemoteItems ==
  { [id |-> 1, filename |-> "IMG1.jpg", time |-> <<1, 2>>, space |-> "s1"],
    [id |-> 3, filename |-> "copy.jpg", time |-> <<1, 0>>, space |-> "shared"] }

InitImport ==
  \E items \in SUBSET ImportRemoteItems :
    /\ photos = {processPhotoRecord(SynologyAccounts[1], it) : it \in items}
    /\ albums = {}
    /\ albumItems = {}
    /\ remote = items
    /\ remoteAlbums = {}
    /\ sid = LoggedOut
    /\ pc = "idle"
    /\ run = IdleRun
    /\ uploadOK = {}
    /\ dupInRemote = {}
    /\ chunkOK = {}
    /\ lastEvent = Event("scan", "", <<>>, "")

NextImport ==
  \E accountName \in GoogleAccounts, scan \in ImportArchives : ImportFromTakeout(accountName, scan)

SpecImport == InitImport /\ [][NextImport]_vars

\* ------------------------------------------------------------------------
\* The scan command alone, over a library in which two photos of the personal
\* space, kept in different folders, carry the same file name
\* ------------------------------------------------------------------------
ScanRemoteItems ==
  { [id |-> 1, filename |-> "IMG1.jpg", time |-> <<1, 2>>, space |-> "s1"],
    [id |-> 4, filename |-> "IMG1.jpg", time |-> <<2, 1>>, space |-> "s1"],
    [id |-> 2, filename |-> "b.jpg", time |-> <<2, 0>>, space |-> "shared"],
    [id |-> 5, filename |-> "c.jpg", time |-> <<2, 2>>, space |-> "shared"] }

NextScan ==
  \/ \E item \in ScanRemoteItems : RemoteAppear(item)
  \/ \E authOK \in BOOLEAN : ScanSynology(authOK)

SpecScan == Init /\ [][NextScan]_vars

\* ------------------------------------------------------------------------
\* Phase 1 of fix-albums alone, over backed-up album photos without a remote
\* identifier and a library in which two items carry the file name IMG1.jpg
\* ------------------------------------------------------------------------
LookupRemoteItems == {it \in ScanRemoteItems : it.id \in {1, 2, 4}}

InitLookup ==
  /\ \E accountName \in GoogleAccounts :
       photos = {TakeoutRecord(accountName, f, TRUE) : f \in {g \in TakeoutFiles : g.albumName # NULL}}
  /\ albums = {}
  /\ albumItems = {}
  /\ remote \in SUBSET LookupRemoteItems
  /\ remoteAlbums = {}
  /\ sid = LoggedOut
  /\ pc = "idle"
  /\ run = IdleRun
  /\ uploadOK = {}
  /\ dupInRemote = {}
  /\ chunkOK = {}
  /\ lastEvent = Event("sync_end", "", <<>>, "")

NextLookup ==
  \/ \E accountName \in GoogleAccounts, limit \in Limits, dryRun, authOK \in BOOLEAN :
       FixStart(accountName, limit, DefaultBatchSize, dryRun, authOK)
  \/ \E answer \in LookupAnswers : FixLookup(answer)
  \/ Kill

SpecLookup == InitLookup /\ [][NextLookup]_vars

\* ------------------------------------------------------------------------
\* The shared space scanned by the services of two remote accounts; two of its
\* photos, kept in different folders, carry the same file name
\* ------------------------------------------------------------------------
ScanningAccounts == {"s1", "s2"}

SharedRemoteItems ==
  { [id |-> 2, filename |-> "b.jpg", time |-> <<2, 0>>, space |-> "shared"],
    [id |-> 5, filename |-> "c.jpg", time |-> <<2, 2>>, space |-> "shared"],
    [id |-> 6, filename |-> "b.jpg", time |-> <<1, 1>>, space |-> "shared"],
    [id |-> 7, filename |-> "d.jpg", time |-> <<1, 0>>, space |-> "shared"] }

\* scanSpace('shared') of the service of one account; a listing that fails
\* ends the loop with nothing processed
ScanSharedSpace(name, sharedOK) ==
  /\ pc = "idle"
  /\ \E shared \in SeqsOf({it \in remote : it.space = "shared"}) :
       /\ photos' = IF sharedOK THEN ScannedCatalog(photos, name, <<>>, shared) ELSE photos
       /\ lastEvent' = Event("scan_shared", name,
                             IF sharedOK THEN [k \in 1..Len(shared) |-> shared[k].id] ELSE <<>>,
                             IF sharedOK THEN "ok" ELSE "failed")
  /\ UNCHANGED <<albums, albumItems, remote, remoteAlbums, sid, pc, run, uploadOK, dupInRemote, chunkOK>>

NextShared ==
  \/ \E item \in SharedRemoteItems : RemoteAppear(item)
  \/ \E name \in ScanningAccounts, sharedOK \in BOOLEAN : ScanSharedSpace(name, sharedOK)

SpecShared == Init /\ [][NextShared]_vars

\* ------------------------------------------------------------------------
\* The sync command run again and again after one import into an empty
\* catalog: no limit, no dry run, every file present, runs killed at will.
\* A started run goes on unless killed (WF on the loop and its end); runs
\* whose login is accepted keep being started, and an upload that keeps being
\* attempted is answered with success at some attempt (SF)
\* ------------------------------------------------------------------------
InitSyncLive ==
  /\ \E accountName \in GoogleAccounts, scan \in Archives :
       /\ photos = ImportedCatalog({}, accountName, scan)
       /\ lastEvent = Event("import", accountName, [k \in 1..Len(scan) |-> scan[k].filePath], "")
  /\ albums = {}
  /\ albumItems = {}
  /\ remote = {}
  /\ remoteAlbums = {}
  /\ sid = LoggedOut
  /\ pc = "idle"
  /\ run = IdleRun
  /\ uploadOK = {}
  /\ dupInRemote = {}
  /\ chunkOK = {}

SyncStartLive(authOK) == \E accountName \in GoogleAccounts : SyncStart(accountName, 0, FALSE, authOK)

SyncItemLive == \E upload \in {"uploaded", "upload_failed", "upload_threw"} : SyncItem(TRUE, upload)

UploadSucceeds == pc = "sync" /\ sid[Pairing[run.acct]] /\ SyncItem(TRUE, "uploaded")

NextSyncLive ==
  \/ \E authOK \in BOOLEAN : SyncStartLive(authOK)
  \/ SyncItemLive
  \/ SyncEnd
  \/ Kill

SpecSyncLive ==
  /\ InitSyncLive /\ [][NextSyncLive]_vars
  /\ WF_vars(SyncItemLive) /\ WF_vars(SyncEnd)
  /\ SF_vars(SyncStartLive(TRUE)) /\ SF_vars(UploadSucceeds)

\* ------------------------------------------------------------------------
\* The sync command run again and again with --limit after one import into an
\* empty catalog. The file of the photo of content h1 is gone from the disk for
\* good; every other file is present and its upload succeeds at some attempt.
\* Fairness as for the runs without limit
\* ------------------------------------------------------------------------
GoneFiles == {TakeoutId(accountName, "h1") : accountName \in GoogleAccounts}

LimitedFiles ==
  TakeoutFiles \cup
    {[filePath |-> <<"trip", "c.jpg">>, filename |-> "c.jpg", hash |-> "h4",
      creationTime |-> <<3, 0>>, albumName |-> "trip"]}

LimitedArchives ==
  UNION {{s \in [1..n -> LimitedFiles] : \A i, j \in 1..n : i # j => s[i] # s[j]}
           : n \in 1..(MaxArchive + 1)}

InitSyncLimited ==
  /\ \E accountName \in GoogleAccounts, scan \in LimitedArchives :
       /\ photos = ImportedCatalog({}, accountName, scan)
       /\ lastEvent = Event("import", accountName, [k \in 1..Len(scan) |-> scan[k].filePath], "")
  /\ albums = {}
  /\ albumItems = {}
  /\ remote = {}
  /\ remoteAlbums = {}
  /\ sid = LoggedOut
  /\ pc = "idle"
  /\ run = IdleRun
  /\ uploadOK = {}
  /\ dupInRemote = {}
  /\ chunkOK = {}

SyncStartLimited(authOK) ==
  \E accountName \in GoogleAccounts, limit \in 1..MaxLimit : SyncStart(accountName, limit, FALSE, authOK)

SyncItemLimited ==
  /\ pc = "sync" /\ run.i < Len(run.queue)
  /\ \E upload \in {"uploaded", "upload_failed", "upload_threw"} :
       SyncItem(run.queue[run.i + 1] \notin GoneFiles, upload)

UploadSucceedsLimited ==
  /\ pc = "sync" /\ run.i < Len(run.queue) /\ sid[Pairing[run.acct]]
  /\ SyncItem(run.queue[run.i + 1] \notin GoneFiles, "uploaded")

NextSyncLimited ==
  \/ \E authOK \in BOOLEAN : SyncStartLimited(authOK)
  \/ SyncItemLimited
  \/ SyncEnd
  \/ Kill

SpecSyncLimited ==
  /\ InitSyncLimited /\ [][NextSyncLimited]_vars
  /\ WF_vars(SyncItemLimited) /\ WF_vars(SyncEnd)
  /\ SF_vars(SyncStartLimited(TRUE)) /\ SF_vars(UploadSucceedsLimited)

\* ------------------------------------------------------------------------
\* services/synology-photos: one SynologyPhotosService object and the requests
\* it sends; run.calls lists the results of the requests sent so far
\* ------------------------------------------------------------------------
SessionCalls ==
  {"scanAllPhotos", "getStorageInfo", "uploadPhoto", "createFolder", "listAlbums",
   "getOrCreateAlbum", "listFolders", "findPhotoByFilename", "getPhotosInFolder",
   "addItemsToAlbum"}

\* a variant in which the search by file name goes out without a token
FailsFastExceptSearch(method, token) == ~token /\ method # "findPhotoByFilename"

\* if (!this.sid) { throw new Error('Not authenticated. Call authenticate() first.') }
FailsFast(method, token) == ~token

\* login request; this.sid is assigned only when the response carries a sid
authenticate(account, granted) ==
  /\ Len(run.calls) < MaxRequests
  /\ run' = [run EXCEPT !.calls = Append(@, granted)]
  /\ sid' = IF granted THEN [sid EXCEPT ![account] = TRUE] ELSE sid
  /\ lastEvent' = Event("authenticate", account, <<>>, IF granted THEN "ok" ELSE "threw")
  /\ UNCHANGED <<photos, albums, albumItems, remote, remoteAlbums, pc, uploadOK, dupInRemote, chunkOK>>

\* if (!this.sid) return; the token is dropped only when the request went through
logout(account, answered) ==
  /\ IF ~sid[account]
     THEN /\ lastEvent' = Event("logout", account, <<>>, "noop")
          /\ UNCHANGED <<run, sid>>
     ELSE /\ Len(run.calls) < MaxRequests
          /\ run' = [run EXCEPT !.calls = Append(@, answered)]
          /\ sid' = IF answered THEN [sid EXCEPT ![account] = FALSE] ELSE sid
          /\ lastEvent' = Event("logout", account, <<>>, IF answered THEN "ok" ELSE "warned")
  /\ UNCHANGED <<photos, albums, albumItems, remote, remoteAlbums, pc, uploadOK, dupInRemote, chunkOK>>

\* any of the calls that carry _sid: the token test comes before the request
SessionCall(account, method, answered) ==
  /\ IF FailsFast(method, sid[account])
     THEN /\ lastEvent' = Event(method, account, <<>>, "Not authenticated")
          /\ UNCHANGED run
     ELSE /\ Len(run.calls) < MaxRequests
          /\ run' = [run EXCEPT !.calls = Append(@, answered)]
          /\ lastEvent' = Event(method, account, <<>>, IF answered THEN "ok" ELSE "failed")
  /\ UNCHANGED <<photos, albums, albumItems, remote, remoteAlbums, sid, pc, uploadOK, dupInRemote, chunkOK>>

NextClient ==
  \/ \E account \in Range(SynologyAccounts), granted \in BOOLEAN : authenticate(account, granted)
  \/ \E account \in Range(SynologyAccounts), answered \in BOOLEAN : logout(account, answered)
  \/ \E account \in Range(SynologyAccounts), method \in SessionCalls, answered \in BOOLEAN :
       SessionCall(account, method, answered)

SpecClient == Init /\ [][NextClient]_vars

\* ------------------------------------------------------------------------
\* The album resolution of Phase 2 in detail: listAlbums, then the client's
\* getOrCreateAlbum over that list, then the local album record, for each
\* album name of the run, while another process may create albums on the
\* remote store. Here run is the state of this part of the run: the album
\* names in Map order, the position a, the list fetched, the names a create
\* request was sent for, and the counters; the batches of an album are left out
\* ------------------------------------------------------------------------
ResolvedAlbumNames == {"cam", "trip"}

\* the id the remote store gives an album of that name
ResolvedAlbumId == [n \in ResolvedAlbumNames |-> IF n = "trip" THEN 7 ELSE 8]

\* a variant of the search in the list that never finds the album
FindsExistingNever(albumName, existingAlbums) == FALSE

\* albums.find((a) => a.name === albumName)
FindsExisting(albumName, existingAlbums) == albumName \in existingAlbums

AlbumRunStart(accountName, names) ==
  /\ pc = "idle"
  /\ run' = [acct |-> accountName, albumQueue |-> names, a |-> 0, existingAlbums |-> {},
             calls |-> <<>>, albumsCreated |-> 0, errors |-> 0, synologyAlbumId |-> 0]
  /\ sid' = [sid EXCEPT ![Pairing[accountName]] = TRUE]
  /\ pc' = "album"
  /\ lastEvent' = Event("album_run", accountName, names, "")
  /\ UNCHANGED <<photos, albums, albumItems, remote, remoteAlbums, uploadOK, dupInRemote, chunkOK>>

\* another process creates an album on the remote store
OtherProcessCreates(albumName) ==
  /\ albumName \notin remoteAlbums
  /\ remoteAlbums' = remoteAlbums \cup {albumName}
  /\ lastEvent' = Event("remote_album", "", <<albumName>>, "")
  /\ UNCHANGED <<photos, albums, albumItems, remote, sid, pc, run, uploadOK, dupInRemote, chunkOK>>

\* const existingAlbums = await synologyService.listAlbums(); a listing that
\* throws ends the work on this album
AlbumList(listOK) ==
  /\ pc = "album"
  /\ run.a < Len(run.albumQueue)
  /\ IF listOK
     THEN /\ run' = [run EXCEPT !.existingAlbums = remoteAlbums]
          /\ pc' = "listed"
     ELSE /\ run' = [run EXCEPT !.errors = @ + 1, !.a = @ + 1]
          /\ pc' = "album"
  /\ lastEvent' = Event("list_albums", run.acct, <<run.albumQueue[run.a + 1]>>,
                        IF listOK THEN "ok" ELSE "album_threw")
  /\ UNCHANGED <<photos, albums, albumItems, remote, remoteAlbums, sid, uploadOK, dupInRemote, chunkOK>>

\* getOrCreateAlbum(albumName, existingAlbums) of the client, then
\* getOrCreateAlbum of the database. The remote store answers a create request
\* for a name it holds with error 408; failed is any other failure;
\* refetchOK is the outcome of the second listAlbums
AlbumGetOrCreate(failed, refetchOK) ==
  /\ pc = "listed"
  /\ LET albumName == run.albumQueue[run.a + 1]
         found == FindsExisting(albumName, run.existingAlbums)
         response == IF failed THEN "failed"
                     ELSE IF albumName \in remoteAlbums THEN "exists" ELSE "created"
         outcome ==
           IF found THEN "existing"
           ELSE IF response = "created" THEN "created"
           ELSE IF response = "exists" /\ refetchOK THEN "refetched"
           ELSE "album_threw"
     IN /\ remoteAlbums' = IF outcome = "created" THEN remoteAlbums \cup {albumName} ELSE remoteAlbums
        /\ albums' = IF outcome # "album_threw"
                     THEN getOrCreateAlbum(albums, run.acct, albumName, ResolvedAlbumId[albumName])
                     ELSE albums
        /\ run' = [run EXCEPT !.calls = IF found THEN @ ELSE Append(@, albumName),
                              !.albumsCreated = IF outcome = "created" THEN @ + 1 ELSE @,
                              !.errors = IF outcome = "album_threw" THEN @ + 1 ELSE @,
                              !.synologyAlbumId = IF outcome # "album_threw"
                                                  THEN ResolvedAlbumId[albumName] ELSE 0,
                              !.a = @ + 1]
        /\ pc' = "album"
        /\ lastEvent' = Event("get_or_create", run.acct, <<albumName, response>>, outcome)
  /\ UNCHANGED <<photos, albumItems, remote, sid, uploadOK, dupInRemote, chunkOK>>

AlbumRunEnd ==
  /\ pc = "album"
  /\ run.a = Len(run.albumQueue)
  /\ pc' = "idle"
  /\ run' = IdleRun
  /\ sid' = LoggedOut
  /\ lastEvent' = Event("album_run_end", "", <<>>, "")
  /\ UNCHANGED <<photos, albums, albumItems, remote, remoteAlbums, uploadOK, dupInRemote, chunkOK>>

NextResolve ==
  \/ \E accountName \in GoogleAccounts, names \in UNION {SeqsOf(S) : S \in SUBSET ResolvedAlbumNames} :
       AlbumRunStart(accountName, names)
  \/ \E albumName \in ResolvedAlbumNames : OtherProcessCreates(albumName)
  \/ \E listOK \in BOOLEAN : AlbumList(listOK)
  \/ \E failed, refetchOK \in BOOLEAN : AlbumGetOrCreate(failed, refetchOK)
  \/ AlbumRunEnd

SpecResolve == Init /\ [][NextResolve]_vars

\* ------------------------------------------------------------------------
\* SynologyPhotosService.batchFindPhotoIds: one call at a time. Here run is
\* the state of the call: its arguments, uniqueFilenames, safeConcurrency, the
\* loop index i, the lookups in flight, the answers of the current group and
\* the results map (a set of <<filename, id>> pairs)
\* ------------------------------------------------------------------------
FilenamePool == <<"f1.jpg", "f2.jpg", "f3.jpg", "f4.jpg", "f5.jpg", "f6.jpg", "f7.jpg", "f8.jpg">>

\* the remote store holds every second file of the pool, under its position as id
BatchRemoteId(filename) ==
  LET k == CHOOSE j \in 1..Len(FilenamePool) : FilenamePool[j] = filename
  IN IF k % 2 = 1 THEN k ELSE NoId

\* argument lists: the first n names of the pool, alone or with the first
\* name repeated at the end
FilenameLists ==
  {SubSeq(FilenamePool, 1, n) : n \in 0..MaxFiles}
    \cup {Append(SubSeq(FilenamePool, 1, n), FilenamePool[1]) : n \in 1..(MaxFiles - 1)}

Concurrencies == (0 - 1)..7

\* [...new Set(filenames)]: first occurrences in order
RECURSIVE Dedupe(_)
Dedupe(list) ==
  IF list = <<>> THEN <<>>
  ELSE LET front == Dedupe(SubSeq(list, 1, Len(list) - 1))
           last == list[Len(list)]
       IN IF last \in Range(front) THEN front ELSE Append(front, last)

\* a variant of the clamp without the upper limit
SafeConcurrencyUnlimited(concurrency) == Max(1, concurrency)

\* Math.max(1, Math.min(concurrency, 5))
SafeConcurrency(concurrency) == Max(1, Min(concurrency, 5))

BatchStart(filenames, concurrency) ==
  /\ pc \in {"idle", "returned", "threw"}
  /\ run' = [filenames |-> filenames, concurrency |-> concurrency,
             uniqueFilenames |-> Dedupe(filenames),
             safeConcurrency |-> SafeConcurrency(concurrency),
             i |-> 0, inFlight |-> {}, batchResults |-> {}, results |-> {}]
  /\ pc' = "batch"
  /\ lastEvent' = Event("batchFindPhotoIds", "", filenames, "")
  /\ UNCHANGED <<photos, albums, albumItems, remote, remoteAlbums, sid, uploadOK, dupInRemote, chunkOK>>

\* the loop condition holds: the lookups of uniqueFilenames.slice(i, i +
\* safeConcurrency) are started (one lookup when safeConcurrency is 1)
BatchLaunch ==
  /\ pc = "batch"
  /\ run.i < Len(run.uniqueFilenames)
  /\ run' = [run EXCEPT !.inFlight = Range(Slice(run.uniqueFilenames, run.i, run.i + run.safeConcurrency)),
                        !.batchResults = {}]
  /\ pc' = "await"
  /\ lastEvent' = Event("launch", "", Slice(run.uniqueFilenames, run.i, run.i + run.safeConcurrency), "")
  /\ UNCHANGED <<photos, albums, albumItems, remote, remoteAlbums, sid, uploadOK, dupInRemote, chunkOK>>

\* findPhotoByFilename throws and nothing in batchFindPhotoIds catches it:
\* the awaited promise (Promise.all for a group) rejects and the call ends
LookupEndsCall(answer) == answer = "failed"

\* one lookup in flight is answered
LookupCompletes(filename, answer) ==
  /\ pc = "await"
  /\ filename \in run.inFlight
  /\ IF LookupEndsCall(answer)
     THEN /\ pc' = "threw"
          /\ run' = [run EXCEPT !.inFlight = @ \ {filename}]
     ELSE /\ pc' = pc
          /\ run' = [run EXCEPT !.inFlight = @ \ {filename},
                                !.batchResults =
                                   IF answer = "listed" /\ BatchRemoteId(filename) # NoId
                                   THEN @ \cup {<<filename, BatchRemoteId(filename)>>} ELSE @]
  /\ lastEvent' = Event("lookup", "", <<filename>>, answer)
  /\ UNCHANGED <<photos, albums, albumItems, remote, remoteAlbums, sid, uploadOK, dupInRemote, chunkOK>>

\* every lookup of the group is answered: processLookup for each, i += safeConcurrency
BatchAdvance ==
  /\ pc = "await"
  /\ run.inFlight = {}
  /\ run' = [run EXCEPT !.results = @ \cup run.batchResults, !.batchResults = {},
                        !.i = @ + run.safeConcurrency]
  /\ pc' = "batch"
  /\ lastEvent' = Event("advance", "", <<>>, "")
  /\ UNCHANGED <<photos, albums, albumItems, remote, remoteAlbums, sid, uploadOK, dupInRemote, chunkOK>>

\* return results
BatchReturn ==
  /\ pc = "batch"
  /\ run.i >= Len(run.uniqueFilenames)
  /\ pc' = "returned"
  /\ lastEvent' = Event("return", "", <<>>, "")
  /\ UNCHANGED <<photos, albums, albumItems, remote, remoteAlbums, sid, run, uploadOK, dupInRemote, chunkOK>>

NextBatch ==
  \/ \E filenames \in FilenameLists, concurrency \in Concurrencies : BatchStart(filenames, concurrency)
  \/ BatchLaunch
  \/ \E filename \in Range(FilenamePool), answer \in {"listed", "failed"} : LookupCompletes(filename, answer)
  \/ BatchAdvance
  \/ BatchReturn

SpecBatch == Init /\ [][NextBatch]_vars

\* ------------------------------------------------------------------------
\* GoogleTakeoutService.extractAlbumName on folder names written as sequences
\* of characters; lastEvent.ids holds the path of the folder relative to the
\* root as a list of folder names, run.albumQueue the label returned (empty
\* for undefined)
\* ------------------------------------------------------------------------
UpperLetters == <<"A", "B", "C", "D", "E", "F", "G", "H", "I", "J", "K", "L", "M",
                  "N", "O", "P", "Q", "R", "S", "T", "U", "V", "W", "X", "Y", "Z">>

LowerLetters == <<"a", "b", "c", "d", "e", "f", "g", "h", "i", "j", "k", "l", "m",
                  "n", "o", "p", "q", "r", "s", "t", "u", "v", "w", "x", "y", "z">>

\* the letter folding of the i flag
Fold(c) ==
  IF c \in Range(UpperLetters)
  THEN LowerLetters[CHOOSE k \in 1..Len(UpperLetters) : UpperLetters[k] = c]
  ELSE c

\* the class \d
Digits == {"0", "1", "2", "3", "4", "5", "6", "7", "8", "9"}

\* /^word$/i for a word written in lower case
MatchesWord(segment, word) ==
  Len(segment) = Len(word) /\ \A k \in 1..Len(word) : Fold(segment[k]) = word[k]

\* /^\d{4}$/
MatchesYear(segment) == Len(segment) = 4 /\ \A k \in 1..4 : segment[k] \in Digits

\* /^\d{4}-\d{2}$/
MatchesYearMonth(segment) ==
  /\ Len(segment) = 7 /\ MatchesYear(SubSeq(segment, 1, 4))
  /\ segment[5] = "-" /\ segment[6] \in Digits /\ segment[7] \in Digits

\* /^\d{4}-\d{2}-\d{2}$/
MatchesYearMonthDay(segment) ==
  /\ Len(segment) = 10 /\ MatchesYearMonth(SubSeq(segment, 1, 7))
  /\ segment[8] = "-" /\ segment[9] \in Digits /\ segment[10] \in Digits

\* /^Photos from \d{4}$/i
MatchesPhotosFrom(segment) ==
  /\ Len(segment) = 16
  /\ MatchesWord(SubSeq(segment, 1, 12), <<"p", "h", "o", "t", "o", "s", " ", "f", "r", "o", "m", " ">>)
  /\ MatchesYear(SubSeq(segment, 13, 16))

\* a variant of the denylist without the year-month pattern
SkipPatternsMatchNoYearMonth(segment) ==
  \/ MatchesPhotosFrom(segment)
  \/ MatchesWord(segment, <<"u", "n", "t", "i", "t", "l", "e", "d">>)
  \/ MatchesYear(segment)
  \/ MatchesYearMonthDay(segment)
  \/ MatchesWord(segment, <<"a", "r", "c", "h", "i", "v", "e">>)
  \/ MatchesWord(segment, <<"t", "r", "a", "s", "h">>)
  \/ MatchesWord(segment, <<"e", "d", "i", "t", "e", "d">>)

\* for (const pattern of skipPatterns) { if (pattern.test(potentialAlbum)) ... }
SkipPatternsMatch(segment) ==
  \/ MatchesPhotosFrom(segment)
  \/ MatchesWord(segment, <<"u", "n", "t", "i", "t", "l", "e", "d">>)
  \/ MatchesYear(segment)
  \/ MatchesYearMonth(segment)
  \/ MatchesYearMonthDay(segment)
  \/ MatchesWord(segment, <<"a", "r", "c", "h", "i", "v", "e">>)
  \/ MatchesWord(segment, <<"t", "r", "a", "s", "h">>)
  \/ MatchesWord(segment, <<"e", "d", "i", "t", "e", "d">>)

\* the label as a list: empty for undefined
extractAlbumName(pathParts) ==
  IF pathParts = <<>> THEN <<>>
  ELSE IF SkipPatternsMatch(pathParts[1]) THEN <<>>
  ELSE <<pathParts[1]>>

SegmentAlphabet == {"2", "-", "x"}

FolderNames ==
  UNION {[1..n -> SegmentAlphabet] : n \in 1..MaxSegment} \cup
  { <<"2", "0", "2", "4", "-", "0", "1">>,
    <<"2", "0", "2", "4", "-", "0", "1", "-", "1", "5">>,
    <<"P", "h", "o", "t", "o", "s", " ", "f", "r", "o", "m", " ", "2", "0", "2", "4">>,
    <<"p", "h", "o", "t", "o", "s", " ", "F", "R", "O", "M", " ", "2", "0", "2", "4">>,
    <<"U", "n", "t", "i", "t", "l", "e", "d">>,
    <<"A", "R", "C", "H", "I", "V", "E">>,
    <<"T", "r", "a", "s", "h">>,
    <<"e", "d", "i", "t", "e", "d">>,
    <<"T", "r", "i", "p">>,
    <<"2", "0", "2", "4", "-", "1">>,
    <<"2", "0", "2", "4", "5">>,
    <<"2", "0", "2", "4", "-", "0", "1", "-", "1", "x">>,
    <<"P", "h", "o", "t", "o", "s", " ", "f", "r", "o", "m", " ", "2", "0", "2", "4", "5">>,
    <<"A", "r", "c", "h", "i", "v", "e", " ", "2">>,
    <<"x", "2", "0", "2", "4">> }

\* the root, its folders, and one folder below each of them
FolderPaths ==
  {<<>>} \cup {<<f>> : f \in FolderNames} \cup {<<f, <<"x">>>> : f \in FolderNames}

InitAlbumName ==
  /\ photos = {}
  /\ albums = {}
  /\ albumItems = {}
  /\ remote = {}
  /\ remoteAlbums = {}
  /\ sid = LoggedOut
  /\ pc = "idle"
  /\ run = IdleRun
  /\ uploadOK = {}
  /\ dupInRemote = {}
  /\ chunkOK = {}
  /\ \E pathParts \in FolderPaths : lastEvent = Event("folder", "", pathParts, "")

ExtractAlbumName ==
  /\ lastEvent.op = "folder"
  /\ run' = [run EXCEPT !.albumQueue = extractAlbumName(lastEvent.ids)]
  /\ lastEvent' = [lastEvent EXCEPT !.op = "extractAlbumName"]
  /\ UNCHANGED <<photos, albums, albumItems, remote, remoteAlbums, sid, pc, uploadOK, dupInRemote, chunkOK>>

NextAlbumName == ExtractAlbumName

SpecAlbumName == InitAlbumName /\ [][NextAlbumName]_vars

\* ------------------------------------------------------------------------
\* SyncService.sanitizeAlbumName on names written as sequences of characters;
\* lastEvent.ids holds the album name, run.albumQueue the folder name returned
\* ------------------------------------------------------------------------
\* the class [<>:"/\\|?*]
Reserved == {"<", ">", ":", "\"", "/", "\\", "|", "?", "*"}

\* the class [./\\]
DotsAndSeparators == {".", "/", "\\"}

Alphabet == {".", "/", "\\", ":", "*", " ", "a"}

DotDotEtc == <<".", ".", "/", ".", ".", "/", "e", "t", "c">>

ConTags == <<"C", "o", "n", ":", "T", "a", "g", "*", "s">>

UntitledAlbum == <<"U", "n", "t", "i", "t", "l", "e", "d", " ", "A", "l", "b", "u", "m">>

AlbumNameInputs ==
  UNION {[1..n -> Alphabet] : n \in 0..MaxName} \cup {DotDotEtc, ConTags}

\* the text left after its longest prefix of characters of class is removed
DropLeading(text, class) ==
  LET prefixes == {k \in 0..Len(text) : \A j \in 1..k : text[j] \in class}
      n == CHOOSE k \in prefixes : \A m \in prefixes : m <= k
  IN SubSeq(text, n + 1, Len(text))

Reverse(text) == [k \in 1..Len(text) |-> text[Len(text) + 1 - k]]

\* String.prototype.trim
trim(text) == Reverse(DropLeading(Reverse(DropLeading(text, {" "})), {" "}))

\* .replace(/[<>:"/\\|?*]/g, '_')
ReplaceReserved(text) == [k \in 1..Len(text) |-> IF text[k] \in Reserved THEN "_" ELSE text[k]]

\* a variant that leaves runs of dots in place
KeepDotRuns(text) == text

\* .replace(/\.{2,}/g, '_'): each maximal run of two or more dots becomes one '_'
RECURSIVE ReplaceDotRuns(_)
ReplaceDotRuns(text) ==
  IF text = <<>> THEN <<>>
  ELSE IF Len(text) >= 2 /\ text[1] = "." /\ text[2] = "."
       THEN <<"_">> \o ReplaceDotRuns(DropLeading(text, {"."}))
       ELSE <<text[1]>> \o ReplaceDotRuns(Tail(text))

sanitizeAlbumName(name) ==
  LET sanitized == trim(DropLeading(ReplaceDotRuns(ReplaceReserved(trim(name))), DotsAndSeparators))
  IN IF sanitized = <<>> THEN UntitledAlbum ELSE sanitized

InitSanitize ==
  /\ photos = {}
  /\ albums = {}
  /\ albumItems = {}
  /\ remote = {}
  /\ remoteAlbums = {}
  /\ sid = LoggedOut
  /\ pc = "idle"
  /\ run = IdleRun
  /\ uploadOK = {}
  /\ dupInRemote = {}
  /\ chunkOK = {}
  /\ \E name \in AlbumNameInputs : lastEvent = Event("album", "", name, "")

Sanitize ==
  /\ lastEvent.op = "album"
  /\ run' = [run EXCEPT !.albumQueue = sanitizeAlbumName(lastEvent.ids)]
  /\ lastEvent' = [lastEvent EXCEPT !.op = "sanitizeAlbumName"]
  /\ UNCHANGED <<photos, albums, albumItems, remote, remoteAlbums, sid, pc, uploadOK, dupInRemote, chunkOK>>

NextSanitize == Sanitize

SpecSanitize == InitSanitize /\ [][NextSanitize]_vars

\* ------------------------------------------------------------------------
\* fix-albums runs over every integer --batch-size: the catalog holds n
\* backed-up photos of album "trip" with their remote identifiers, and each
\* run is one call of fixAlbumsRetroactively without an item limit
\* ------------------------------------------------------------------------
MaxAlbumPhotos == 3

\* options.batchSize: negative, zero, and up to more than the album holds
BatchSizeRange == (0 - 2)..(MaxAlbumPhotos + 1)

InitBatchSize ==
  \E accountName \in GoogleAccounts, n \in 1..MaxAlbumPhotos :
    /\ photos = AlbumCatalog(accountName, n)
    /\ albums = {}
    /\ albumItems = {}
    /\ remote = {}
    /\ remoteAlbums = {}
    /\ sid = LoggedOut
    /\ pc = "idle"
    /\ run = IdleRun
    /\ uploadOK = {}
    /\ dupInRemote = {TakeoutId(accountName, k) : k \in 1..n}
    /\ chunkOK = {}
    /\ lastEvent = Event("init", "", <<>>, "")

NextBatchSize ==
  \/ \E accountName \in GoogleAccounts, batchSize \in BatchSizeRange, dryRun, authOK \in BOOLEAN :
       FixStart(accountName, 0, batchSize, dryRun, authOK)
  \/ FixPhase2
  \/ \E remoteOK \in BOOLEAN : FixAlbum(remoteOK)
  \/ FixBatch
  \/ FixEnd

\* the command is one sequential async function: after each awaited request
\* or delay it takes its next step
SpecBatchSize == InitBatchSize /\ [][NextBatchSize]_vars /\ WF_vars(NextBatchSize)

\* ------------------------------------------------------------------------
\* The fix-albums command run again and again with --limit over backed-up
\* album photos without a remote identifier. The library holds b.jpg and
\* c.jpg but no item named IMG1.jpg, on every run; every request succeeds at
\* some attempt
\* ------------------------------------------------------------------------
LimitedRemoteItems == {it \in ScanRemoteItems : it.id \in {2, 5}}

LimitedAlbumFiles == {f \in LimitedFiles : f.albumName # NULL}

InitFixLimited ==
  /\ \E accountName \in GoogleAccounts, files \in SUBSET LimitedAlbumFiles \ {{}} :
       photos = {TakeoutRecord(accountName, f, TRUE) : f \in files}
  /\ albums = {}
  /\ albumItems = {}
  /\ remote = LimitedRemoteItems
  /\ remoteAlbums = {}
  /\ sid = LoggedOut
  /\ pc = "idle"
  /\ run = IdleRun
  /\ uploadOK = {}
  /\ dupInRemote = {}
  /\ chunkOK = {}
  /\ lastEvent = Event("sync_end", "", <<>>, "")

FixStartLimited(authOK) ==
  \E accountName \in GoogleAccounts, limit \in 1..MaxLimit :
    FixStart(accountName, limit, DefaultBatchSize, FALSE, authOK)

LookupAnswered == pc = "fix1" /\ sid[Pairing[run.acct]] /\ FixLookup("listed")

AlbumResolved == pc = "fix2" /\ sid[Pairing[run.acct]] /\ FixAlbum(TRUE)

BatchAdded == FixBatch /\ lastEvent'.outcome = "added"

NextFixLimited ==
  \/ \E authOK \in BOOLEAN : FixStartLimited(authOK)
  \/ \E answer \in LookupAnswers : FixLookup(answer)
  \/ FixPhase2
  \/ \E remoteOK \in BOOLEAN : FixAlbum(remoteOK)
  \/ FixBatch
  \/ FixEnd

\* a run takes its next step; the operator starts runs again and again,
\* and a request that is repeated forever succeeds at some attempt
SpecFixLimited ==
  /\ InitFixLimited /\ [][NextFixLimited]_vars
  /\ WF_vars(NextFixLimited)
  /\ SF_vars(FixStartLimited(TRUE)) /\ SF_vars(LookupAnswered)
  /\ SF_vars(AlbumResolved) /\ SF_vars(BatchAdded)

\* ------------------------------------------------------------------------
\* fix-albums runs, dry and real, in which every remote call succeeds, over
\* backed-up album photos some of which have their remote identifier; the
\* library holds at most one item per file name. The event of a finished run
\* keeps the photoIdsFound and addedToAlbums of its result
\* ------------------------------------------------------------------------
PreviewRemoteItems == {it \in ScanRemoteItems : it.id \in {1, 2, 5}}

InitPreview ==
  /\ \E accountName \in GoogleAccounts, files \in SUBSET LimitedAlbumFiles \ {{}} :
       \E known \in SUBSET {f \in files : f.filename = "c.jpg"} :
         photos = {TakeoutRecord(accountName, f, TRUE) : f \in files \ known}
                    \cup {[TakeoutRecord(accountName, f, TRUE) EXCEPT !.synologyPhotoId = 5] : f \in known}
  /\ albums = {}
  /\ albumItems = {}
  /\ remote \in SUBSET PreviewRemoteItems
  /\ remoteAlbums = {}
  /\ sid = LoggedOut
  /\ pc = "idle"
  /\ run = IdleRun
  /\ uploadOK = {}
  /\ dupInRemote = {}
  /\ chunkOK = {}
  /\ lastEvent = Event("sync_end", "", <<>>, "")

FixReturn == FixEndWith(<<run.photoIdsFound, run.addedToAlbums>>)

\* addItemsToAlbum returned true, or the run is dry and sends no request
FixBatchAnswered == FixBatch /\ lastEvent'.outcome # "add_failed"

NextPreview ==
  \/ \E accountName \in GoogleAccounts, limit \in Limits, dryRun \in BOOLEAN :
       FixStart(accountName, limit, DefaultBatchSize, dryRun, TRUE)
  \/ FixLookup("listed")
  \/ FixPhase2
  \/ FixAlbum(TRUE)
  \/ FixBatchAnswered
  \/ FixReturn

SpecPreview == InitPreview /\ [][NextPreview]_vars

\* ------------------------------------------------------------------------
\* The import command over a catalog that a remote scan has filled:
\* GoogleTakeoutService.scanTakeoutFolder with its file-processing tasks,
\* then the rest of importFromTakeout. Here run is the state of the call of
\* scanTakeoutFolder: filesToProcess (the media files in collection order),
\* the files whose processing throws, the concurrency option, the loop index
\* i, the batch, the tasks in flight and the order in which they completed
\* (as positions of the batch), and result.photos and result.errors
\* ------------------------------------------------------------------------
\* options.concurrency: negative, zero, and up to the number of files
ScanConcurrencies == (0 - 1)..MaxScan

\* below this index every slice is empty and the loop condition holds, as for
\* every negative index once the batch of index 0 is done
IndexFloor == 0 - (MaxScan + 1)

\* Array.prototype.slice(from, to) with relative (negative) indexes
ArraySlice(s, from, to) ==
  LET rel(k) == IF k < 0 THEN Max(Len(s) + k, 0) ELSE Min(k, Len(s))
  IN SubSeq(s, rel(from) + 1, rel(to))

\* a variant that hands the results over in the order the tasks completed
ResultsInCompletionOrder(n, completion) == completion

\* await Promise.all(batch.map(...)): the results come in the order of the
\* batch, whatever the order in which the tasks completed
PromiseAllOrder(n, completion) == [k \in 1..n |-> k]

ScanStart(files, unreadable, concurrency) ==
  /\ pc = "idle"
  /\ lastEvent.op = "scan"
  /\ run' = [filesToProcess |-> files, unreadable |-> unreadable, concurrency |-> concurrency,
             i |-> 0, batch |-> <<>>, inFlight |-> {}, completion |-> <<>>,
             scanned |-> <<>>, errors |-> <<>>]
  /\ pc' = "scan"
  /\ lastEvent' = Event("scan_start", "", [k \in 1..Len(files) |-> files[k].filePath], "")
  /\ UNCHANGED <<photos, albums, albumItems, remote, remoteAlbums, sid, uploadOK, dupInRemote, chunkOK>>

\* the loop condition holds: the tasks of filesToProcess.slice(i, i + concurrency) start
ScanLaunch ==
  /\ pc = "scan"
  /\ run.i < Len(run.filesToProcess)
  /\ LET batch == ArraySlice(run.filesToProcess, run.i, run.i + run.concurrency)
     IN /\ run' = [run EXCEPT !.batch = batch, !.inFlight = 1..Len(batch), !.completion = <<>>]
        /\ lastEvent' = Event("scan_launch", "", [k \in 1..Len(batch) |-> batch[k].filePath], "")
  /\ pc' = "await"
  /\ UNCHANGED <<photos, albums, albumItems, remote, remoteAlbums, sid, uploadOK, dupInRemote, chunkOK>>

\* processMediaFile of one file of the batch returns or throws (caught in the task)
TaskCompletes(k) ==
  /\ pc = "await"
  /\ k \in run.inFlight
  /\ run' = [run EXCEPT !.inFlight = @ \ {k}, !.completion = Append(@, k)]
  /\ lastEvent' = Event("scan_task", "", <<run.batch[k].filePath>>,
                        IF run.batch[k] \in run.unreadable THEN "error" ELSE "photo")
  /\ UNCHANGED <<photos, albums, albumItems, remote, remoteAlbums, sid, pc, uploadOK, dupInRemote, chunkOK>>

\* Promise.all resolves: the results are collected, i += concurrency
ScanCollect ==
  /\ pc = "await"
  /\ run.inFlight = {}
  /\ LET order == PromiseAllOrder(Len(run.batch), run.completion)
         results == [k \in 1..Len(order) |-> run.batch[order[k]]]
     IN run' = [run EXCEPT
                  !.scanned = @ \o SelectSeq(results, LAMBDA f : f \notin run.unreadable),
                  !.errors = @ \o SelectSeq(results, LAMBDA f : f \in run.unreadable),
                  !.i = Max(@ + run.concurrency, IndexFloor)]
  /\ pc' = "scan"
  /\ lastEvent' = Event("scan_collect", "", <<>>, "")
  /\ UNCHANGED <<photos, albums, albumItems, remote, remoteAlbums, sid, uploadOK, dupInRemote, chunkOK>>

\* return result
ScanReturn ==
  /\ pc = "scan"
  /\ ~(run.i < Len(run.filesToProcess))
  /\ pc' = "idle"
  /\ lastEvent' = Event("scan_return", "", <<>>, "")
  /\ UNCHANGED <<photos, albums, albumItems, remote, remoteAlbums, sid, run, uploadOK, dupInRemote, chunkOK>>

\* the rest of importFromTakeout on scanResult.photos
ImportScanned ==
  /\ lastEvent.op = "scan_return"
  /\ \E accountName \in GoogleAccounts : ImportFromTakeout(accountName, run.scanned)

NextTakeoutScan ==
  \/ \E files \in ImportArchives, concurrency \in ScanConcurrencies :
       \E unreadable \in {u \in SUBSET Range(files) : Cardinality(u) <= 1} :
         ScanStart(files, unreadable, concurrency)
  \/ ScanLaunch
  \/ \E k \in 1..MaxScan : TaskCompletes(k)
  \/ ScanCollect
  \/ ScanReturn
  \/ ImportScanned

\* the call is one async function: every task it awaits settles and it takes
\* its next step
SpecTakeoutScan == InitImport /\ [][NextTakeoutScan]_vars /\ WF_vars(NextTakeoutScan)

\* ------------------------------------------------------------------------
\* Properties
\* ------------------------------------------------------------------------
\* SELECT * FROM photos WHERE source = 'google' AND is_backed_up = 1
getPhotosSafeToDelete(table) == {r \in table : r.source = "google" /\ r.isBackedUp}

\* C1: every archive-source photo reported by getPhotosSafeToDelete had an
\* upload call that reported success or was classified duplicate-in-remote by
\* an import
C1_SafeToDeleteJustified ==
  \A r \in getPhotosSafeToDelete(photos) : r.id \in uploadOK \cup dupInRemote

\* a catalog reporting one photo safe after its upload and another one safe as
\* a duplicate of a remote photo, next to a photo that is not reported
C1_Witness ==
  /\ \E r \in getPhotosSafeToDelete(photos) : r.id \in uploadOK \ dupInRemote
  /\ \E r \in getPhotosSafeToDelete(photos) : r.id \in dupInRemote \ uploadOK

\* C2: an iteration of syncToSynology leaves the photo backed-up exactly when
\* its upload call reported success; after a failed or thrown upload, a missing
\* file or a dry run the catalog is as before and isBackedUp is false
C2_MarkedOnlyAfterSuccess ==
  [][lastEvent'.op = "sync_item" =>
       LET id == lastEvent'.ids[1]
       IN /\ ~Row(photos, id).isBackedUp
          /\ Row(photos', id).isBackedUp <=> lastEvent'.outcome = "uploaded"
          /\ lastEvent'.outcome # "uploaded" => photos' = photos]_vars

\* a run that has uploaded one photo and then got false for the next one
C2_Witness ==
  /\ lastEvent.op = "sync_item" /\ lastEvent.outcome = "upload_failed"
  /\ ~Row(photos, lastEvent.ids[1]).isBackedUp
  /\ run.synced = 1 /\ ~run.dryRun
  /\ \E r \in photos : r.id \in uploadOK /\ r.isBackedUp

\* C3: a record whose isBackedUp is true never has isBackedUp false in a
\* later state
C3_BackedUpNeverResets ==
  [][\A r \in photos : r.isBackedUp =>
       \A r2 \in photos' : r2.id = r.id => r2.isBackedUp]_vars

\* C4: the upsert of a record with the id of a stored record (re-import,
\* re-scan) leaves the stored remote photo identifier and the recorded album
\* membership of that photo unchanged
C4_UpsertKeepsStatus ==
  [][lastEvent'.op \in {"import", "scan"} =>
       /\ albumItems' = albumItems
       /\ \A r \in photos : \A r2 \in photos' :
            r2.id = r.id => r2.synologyPhotoId = r.synologyPhotoId]_vars

\* C5: a photo whose upload has succeeded and been recorded is not selected
\* for upload by a later sync run
C5_TransferredOnce ==
  lastEvent.op = "sync_start" => Range(run.queue) \cap uploadOK = {}

\* photos recorded as members of the album of that name
MembersOf(accountName, albumName) ==
  {ai.photoId : ai \in {x \in albumItems : \E a \in albums :
                           /\ a.id = x.albumId /\ a.accountName = accountName
                           /\ a.name = albumName}}

\* C6: a membership record exists only for a photo sent in an add-to-album
\* request that succeeded; every photo sent in a request that succeeded has
\* its membership recorded; a batch whose call failed is counted as errored
C6_MembershipMirrorsChunks ==
  /\ \A a \in albums : \A id \in MembersOf(a.accountName, a.name) :
       <<a.accountName, a.name, id>> \in chunkOK
  /\ \A c \in chunkOK : c[3] \in MembersOf(c[1], c[2])
  /\ lastEvent.op = "fix_batch" /\ lastEvent.outcome = "add_failed" =>
       run.errors >= Len(lastEvent.ids)

\* C8: a run over the album of BigAlbum (1200) photos with chunks of
\* DefaultChunkSize (500) whose requests all succeed has issued exactly three
\* add-to-album requests; if the second request failed, three requests were
\* issued, the members are exactly the first 500 photos and the remaining 700
\* photos are counted as errors
C8_ThreeCallsSecondFails ==
  ( /\ pc = "fix2" /\ lastEvent.op = "fix_batch" /\ ~run.dryRun
    /\ run.a = Len(run.albumQueue) /\ Len(run.queue) = BigAlbum
    /\ run.batchSize \in {DefaultChunkSize, BigAlbum} ) =>
      /\ (\A c \in 1..Len(run.calls) : run.calls[c]) =>
           Len(run.calls) = NumChunks(BigAlbum, DefaultChunkSize)
      /\ (Len(run.calls) >= 2 /\ run.calls[1] /\ ~run.calls[2]) =>
           /\ Len(run.calls) = NumChunks(BigAlbum, DefaultChunkSize)
           /\ MembersOf(run.acct, "trip") = {run.queue[k] : k \in 1..DefaultChunkSize}
           /\ run.errors = BigAlbum - DefaultChunkSize

\* C7 (as stated): a fix-albums run that directly follows a finished run for
\* the same account with the same options records no membership
C7_SecondRunAddsNothing ==
  [][run.again # "no" => albumItems' = albumItems]_vars

\* C7 (amended): a fix-albums run that directly follows a run for the same
\* account with the same options which finished with zero errors, in which
\* no lookup was answered 'search API not available', and whose limit cut off
\* neither backlog records no membership
C7_SecondRunAfterCleanRunAddsNothing ==
  [][run.again = "clean" => albumItems' = albumItems]_vars

\* a second run in its membership phase, after a clean first run that did
\* record memberships
C7_Witness ==
  /\ run.again = "clean" /\ ~run.dryRun
  /\ lastEvent.op = "fix_phase2"
  /\ albumItems # {}

FailedEvent ==
  \/ lastEvent.op = "sync_item" /\ lastEvent.outcome \in {"upload_failed", "upload_threw"}
  \/ lastEvent.op = "fix_lookup" /\ lastEvent.outcome = "lookup_threw"
  \/ lastEvent.op = "fix_album" /\ lastEvent.outcome \in {"album_threw", "album_record_threw"}
  \/ lastEvent.op = "fix_batch" /\ lastEvent.outcome = "add_failed"

\* the rows the backlog query of the failed step's phase selects
Backlog(table, albumTable, items, op, accountName) ==
  IF op = "sync_item" THEN NotBackedUpRows(table, accountName)
  ELSE IF op = "fix_lookup" THEN NeedingSynologyIdRows(table, accountName)
  ELSE NeedingAlbumSyncRows(table, albumTable, items, accountName)

\* C9: a step in which an upload, an identifier lookup, an album get-or-create
\* or an add-to-album call failed leaves photos, albums and album_items as
\* they were, and the photos of the failed call are rows of the backlog query
\* of that phase
C9_FailureLeavesCatalog ==
  [][FailedEvent' =>
       /\ photos' = photos /\ albums' = albums /\ albumItems' = albumItems
       /\ Range(lastEvent'.ids) \subseteq Ids(Backlog(photos', albums', albumItems', lastEvent'.op, lastEvent'.acct))]_vars

\* a batch whose add-to-album call failed, its photos still in the backlog
C9_Witness ==
  /\ lastEvent.op = "fix_batch" /\ lastEvent.outcome = "add_failed"
  /\ Len(lastEvent.ids) = 2
  /\ Range(lastEvent.ids) \subseteq Ids(NeedingAlbumSyncRows(photos, albums, albumItems, lastEvent.acct))

\* C10: importing the same archive for the same account a second time in a
\* row leaves the set of record ids as the first import left it, with one row
\* per id
C10_ReimportSameIds ==
  [][lastEvent'.op = "import" /\ lastEvent'.outcome = "again" =>
       /\ Ids(photos') = Ids(photos)
       /\ Cardinality(photos') = Cardinality(Ids(photos'))]_vars

\* a second import of a two-file archive over a catalog that also holds
\* rows of a remote scan
C10_Witness ==
  /\ lastEvent.op = "import" /\ lastEvent.outcome = "again"
  /\ Len(lastEvent.ids) = 2
  /\ \E r \in photos : r.source = "synology"
  /\ \E r \in photos : r.source = "google"

\* the scan result an import event stands for
ScanOf(files) ==
  [k \in 1..Len(files) |-> CHOOSE f \in TakeoutFiles \cup ClashFiles : f.filePath = files[k]]

\* some remote-source record has the digest, or the lower-cased file name and
\* the creation day, of the photo
MatchesRemoteRecord(table, photo) ==
  \E r \in table :
    /\ r.source = "synology"
    /\ \/ r.hash = photo.hash
       \/ /\ ToLowerCase(r.filename) = ToLowerCase(photo.filename)
          /\ r.creationTime[1] = photo.creationTime[1]

IsNew(c, photo) == photo \in Range(c.newPhotos)

IsDuplicateInRemote(c, photo) == photo \in Range(c.alreadyBackedUp)

IsDuplicateInBatch(c, photo) == ~IsNew(c, photo) /\ ~IsDuplicateInRemote(c, photo)

SameContent(scan, h) == {k \in 1..Len(scan) : scan[k].hash = h}

First(S) == CHOOSE k \in S : \A j \in S : k <= j

\* the import scenario: trip/IMG1.jpg and IMG1.jpg, in either order, matching
\* no remote record, give one new photo and one duplicate-in-batch
ScenarioTwoCopies(table, scan, c) ==
  ( /\ Range(scan) = {f \in TakeoutFiles : f.filename = "IMG1.jpg"}
    /\ \A k \in 1..Len(scan) : ~MatchesRemoteRecord(table, scan[k]) ) =>
      Len(c.newPhotos) = 1 /\ c.duplicatesInTakeout = 1

\* C12 (as stated): of several photos of one scan with identical content that
\* match no remote record, the first in scan order is classified new and every
\* later one duplicate-in-batch
C12_FirstOfContentIsNew ==
  [][lastEvent'.op = "import" =>
       LET scan == ScanOf(lastEvent'.ids)
           c == ClassifyScan(photos, scan)
       IN /\ ScenarioTwoCopies(photos, scan, c)
          /\ \A h \in {scan[k].hash : k \in 1..Len(scan)} :
               LET G == SameContent(scan, h)
               IN ( /\ Cardinality(G) >= 2
                    /\ \A k \in G : ~MatchesRemoteRecord(photos, scan[k]) ) =>
                      /\ IsNew(c, scan[First(G)])
                      /\ \A k \in G \ {First(G)} : IsDuplicateInBatch(c, scan[k])]_vars

\* C12 (amended): the same, provided no earlier photo of the scan that was
\* classified new has the file name and day of the first photo of that content
C12_FirstOfContentIsNewUnlessNameSeen ==
  [][lastEvent'.op = "import" =>
       LET scan == ScanOf(lastEvent'.ids)
           c == ClassifyScan(photos, scan)
       IN /\ ScenarioTwoCopies(photos, scan, c)
          /\ \A h \in {scan[k].hash : k \in 1..Len(scan)} :
               LET G == SameContent(scan, h)
               IN ( /\ Cardinality(G) >= 2
                    /\ \A k \in G : ~MatchesRemoteRecord(photos, scan[k])
                    /\ \A j \in 1..(First(G) - 1) :
                         ~( /\ IsNew(c, scan[j])
                            /\ FilenameDateKey(scan[j].filename, scan[j].creationTime) =
                                 FilenameDateKey(scan[First(G)].filename,
                                                 scan[First(G)].creationTime) ) ) =>
                      /\ IsNew(c, scan[First(G)])
                      /\ \A k \in G \ {First(G)} : IsDuplicateInBatch(c, scan[k])]_vars

\* the archive of the scenario has been imported into a catalog without a
\* matching remote record: one pending record, no other archive record
C12_Witness ==
  /\ lastEvent.op = "import"
  /\ Range(lastEvent.ids) = {<<"trip", "IMG1.jpg">>, <<"", "IMG1.jpg">>}
  /\ ~\E r \in photos : r.source = "synology" /\ r.filename = "IMG1.jpg"
  /\ Cardinality({r \in photos : r.source = "google"}) = 1
  /\ \A r \in photos : r.source = "google" => ~r.isBackedUp

\* ids of the archive records a sync run of the account would select
PendingIds(table, accountName) == Ids(NotBackedUpRows(table, accountName))

C14_DryRunChangesNothing ==
  [][(pc # "idle" /\ run.dryRun) =>
       /\ photos' = photos /\ albums' = albums /\ albumItems' = albumItems
       /\ remote' = remote /\ remoteAlbums' = remoteAlbums
       /\ uploadOK' = uploadOK /\ chunkOK' = chunkOK
       /\ pc' # "idle" => run'.calls = <<>> /\ run'.albumsCreated = 0
       /\ lastEvent'.op = "sync_item" =>
            /\ lastEvent'.outcome \in {"missing", "dry"}
            /\ run'.i = run.i + 1
            /\ lastEvent'.outcome = "dry" => run'.synced = run.synced + 1
       /\ lastEvent'.op = "fix_lookup" =>
            /\ run'.i = run.i + 1
            /\ lastEvent'.outcome = "found" => run'.photoIdsFound = run.photoIdsFound + 1
       /\ lastEvent'.op = "fix_album" => lastEvent'.outcome = "dry"
       /\ lastEvent'.op = "fix_batch" =>
            /\ lastEvent'.outcome = "dry"
            /\ run'.processed = run.processed + Len(lastEvent'.ids)
            /\ run'.addedToAlbums = run.addedToAlbums + Len(lastEvent'.ids)]_vars

\* a dry run of fix-albums has counted a batch as added and recorded nothing
C14_Witness ==
  /\ run.dryRun /\ lastEvent.op = "fix_batch" /\ lastEvent.outcome = "dry"
  /\ run.addedToAlbums >= 1 /\ run.calls = <<>>
  /\ ~\E ai \in albumItems : ai.photoId \in Range(lastEvent.ids)

\* C15: during a sync run every photo visited so far is counted once as
\* synced, failed or skipped; the loop goes on to the next photo whatever the
\* earlier outcomes were, and the run ends only with all selected photos counted
C15_EveryPhotoCountedOnce ==
  pc = "sync" =>
    /\ run.synced + run.failed + run.skipped = run.i
    /\ run.i <= Len(run.queue)
    /\ run.i < Len(run.queue) =>
         ENABLED (\E fileExists \in BOOLEAN, upload \in {"uploaded", "upload_failed", "upload_threw"} :
                    SyncItem(fileExists, upload))
    /\ ENABLED SyncEnd => run.synced + run.failed + run.skipped = Len(run.queue)

\* a run over two photos at its end: one upload failed, then one succeeded
C15_Witness ==
  /\ pc = "sync" /\ Len(run.queue) = 2 /\ run.i = 2
  /\ run.failed = 1 /\ run.synced = 1
  /\ lastEvent.op = "sync_item" /\ lastEvent.outcome = "uploaded"

\* C17: no step removes a record id from the photos table
C17_RecordsNeverDeleted == [][Ids(photos) \subseteq Ids(photos')]_vars

\* C18: a call that needs a session, made while no token is held, ends with
\* 'Not authenticated' and sends no request; with a token held it sends one;
\* and a step that sets the token is a granted authenticate
C18_NoTokenNoRequest ==
  [][/\ (lastEvent'.op \in SessionCalls /\ ~sid[lastEvent'.acct]) =>
         (lastEvent'.outcome = "Not authenticated" /\ run'.calls = run.calls)
     /\ (lastEvent'.op \in SessionCalls /\ sid[lastEvent'.acct]) =>
         (lastEvent'.outcome # "Not authenticated" /\ Len(run'.calls) = Len(run.calls) + 1)
     /\ \A account \in Range(SynologyAccounts) :
          (~sid[account] /\ sid'[account]) =>
            lastEvent' = Event("authenticate", account, <<>>, "ok")]_vars

\* after a logout that went through, a search by file name was refused
\* without a request
C18_Witness ==
  /\ lastEvent.op = "findPhotoByFilename" /\ lastEvent.outcome = "Not authenticated"
  /\ ~sid[lastEvent.acct]
  /\ run.calls = <<TRUE, TRUE>>

\* C19: while a command runs for an account whose authentication failed, no
\* upload, lookup or remote album call is made for any of its photos
C19_NoWorkAfterFailedAuthentication ==
  (pc # "idle" /\ ~sid[Pairing[run.acct]]) =>
    /\ ~(lastEvent.op = "sync_item" /\ lastEvent.outcome = "upload_threw")
    /\ lastEvent.op # "fix_lookup"
    /\ ~(lastEvent.op = "fix_album" /\ lastEvent.outcome = "album_threw")

\* C20: the folder name returned by sanitizeAlbumName is not empty, holds no
\* two dots in a row, holds none of the reserved characters and does not
\* begin with a separator
C20_SanitizedNameIsSafe ==
  lastEvent.op = "sanitizeAlbumName" =>
    LET out == run.albumQueue
    IN /\ Len(out) >= 1
       /\ \A k \in 1..(Len(out) - 1) : ~(out[k] = "." /\ out[k + 1] = ".")
       /\ \A k \in 1..Len(out) : out[k] \notin Reserved
       /\ out[1] \notin {"/", "\\"}

\* the name "../../etc" has been sanitized to "____etc"
C20_Witness ==
  /\ lastEvent.op = "sanitizeAlbumName" /\ lastEvent.ids = DotDotEtc
  /\ run.albumQueue = <<"_", "_", "_", "_", "e", "t", "c">>

\* C16: under repeated unlimited sync runs with kills in between, files present
\* and uploads that succeed at some attempt, from some point on no photo of
\* the account is pending; and at every point each backed-up photo is one
\* whose upload has succeeded
C16_EventuallyAllBackedUp ==
  /\ [](\A r \in photos : (r.source = "google" /\ r.isBackedUp) => r.id \in uploadOK)
  /\ <>[](\A accountName \in GoogleAccounts : NotBackedUpRows(photos, accountName) = {})

\* both photos of an import are backed up and uploaded, the last run having
\* been killed after its second upload
C16_Witness ==
  /\ Cardinality(photos) = 2
  /\ \A accountName \in GoogleAccounts : NotBackedUpRows(photos, accountName) = {}
  /\ uploadOK = Ids(photos)
  /\ lastEvent.op = "kill"

\* C21: a name made only of characters that sanitizeAlbumName treats as
\* invalid (the reserved characters, dots and separators) is mapped to the
\* placeholder 'Untitled Album'
C21_AllInvalidGivesPlaceholder ==
  (/\ lastEvent.op = "sanitizeAlbumName"
   /\ lastEvent.ids # <<>>
   /\ \A k \in 1..Len(lastEvent.ids) : lastEvent.ids[k] \in Reserved \cup DotsAndSeparators)
    => run.albumQueue = UntitledAlbum

\* C22: after a scan of the shared space by any account the catalog holds
\* exactly one record for each shared photo listed, whatever was scanned
\* before and by whom
C22_OneRecordPerSharedPhoto ==
  (lastEvent.op = "scan_shared" /\ lastEvent.outcome = "ok") =>
    \A photoId \in Range(lastEvent.ids) :
      Cardinality({r \in photos : r.source = "synology" /\ r.synologyPhotoId = photoId}) = 1

\* one Phase 1 iteration has exactly one outcome, counted once: found in
\* photoIdsFound (and stored unless the run is a dry run), the outcomes of
\* skippedOutcomes in skipped, those of errorOutcomes in errors; unless found,
\* the identifier stays unset; and the loop stays in Phase 1
LookupStepCounted(skippedOutcomes, errorOutcomes) ==
  lastEvent'.op = "fix_lookup" =>
    LET id == lastEvent'.ids[1]
        o == lastEvent'.outcome
    IN /\ o \in {"found"} \cup skippedOutcomes \cup errorOutcomes
       /\ run'.i = run.i + 1 /\ pc' = "fix1"
       /\ run'.photoIdsFound = run.photoIdsFound + (IF o = "found" THEN 1 ELSE 0)
       /\ run'.skipped = run.skipped + (IF o \in skippedOutcomes THEN 1 ELSE 0)
       /\ run'.errors = run.errors + (IF o \in errorOutcomes THEN 1 ELSE 0)
       /\ (o = "found" /\ ~run.dryRun) => Row(photos', id).synologyPhotoId # NoId
       /\ o # "found" => (photos' = photos /\ Row(photos', id).synologyPhotoId = NoId)
       /\ o = "not_found" => ~\E it \in remote : it.filename = Row(photos, id).filename

\* C23 as stated: only a search without a match is counted as skipped; every
\* API failure, the error codes 101 to 103 included, is counted as an error
C23_LookupOutcomeCountedOnce ==
  [][LookupStepCounted({"not_found"}, {"lookup_threw", "unavailable"})]_vars

\* C23: a search without a match and an answer 'search API not available'
\* (error code 101, 102 or 103) are counted as skipped; any other API failure
\* and any transport failure is counted as an error
C23_LookupOutcomeCountedOnceUnavailableSkipped ==
  [][LookupStepCounted({"not_found", "unavailable"}, {"lookup_threw"})]_vars

\* a lookup answered 'not available' after one that failed: one skipped, one
\* error, both identifiers unset
C23_Witness ==
  /\ pc = "fix1" /\ lastEvent.op = "fix_lookup" /\ lastEvent.outcome = "unavailable"
  /\ run.i = 2 /\ run.skipped = 1 /\ run.errors = 1 /\ sid[Pairing[run.acct]]
  /\ \A id \in Range(run.queue) : Row(photos, id).synologyPhotoId = NoId

\* C24: a Phase 1 step stores an identifier only when exactly one remote item
\* carries the file name of the photo
C24_StoredOnlyOnUniqueMatch ==
  [][(lastEvent'.op = "fix_lookup" /\ photos' # photos) =>
       Cardinality({it \in remote : it.filename = Row(photos, lastEvent'.ids[1]).filename}) = 1]_vars

\* C25: during a call of batchFindPhotoIds at most min(max(concurrency, 1), 5)
\* lookups are in flight, and lookups are started only when none of the
\* group before is still in flight
C25_BoundedLookupsInFlight ==
  /\ [](pc \in {"batch", "await"} =>
          Cardinality(run.inFlight) <= Min(Max(run.concurrency, 1), 5))
  /\ [][(pc \in {"batch", "await"} /\ pc' \in {"batch", "await"}
         /\ ~(run'.inFlight \subseteq run.inFlight)) => run.inFlight = {}]_vars

\* a call with concurrency 7 over six names has five lookups in flight
C25_Witness ==
  /\ pc = "await" /\ run.concurrency = 7 /\ Len(run.uniqueFilenames) = 6
  /\ Cardinality(run.inFlight) = 5

\* C26: a lookup that fails does not end the call of batchFindPhotoIds
C26_FailedLookupDoesNotAbort ==
  (lastEvent.op = "lookup" /\ lastEvent.outcome = "failed") => pc # "threw"

\* C27: in Phase 2 an album whose get-or-create fails has its photos counted
\* as errors and the run goes on with the next album; and every chunk of a
\* batch handed to addItemsToAlbum is requested, whatever the answers to the
\* chunks before it, after which the run goes on with the next batch
C27_FailureNeverStopsRun ==
  [][/\ (lastEvent'.op = "fix_album" /\ lastEvent'.outcome \in {"album_threw", "album_record_threw"}) =>
         /\ run'.errors = run.errors + Len(lastEvent'.ids)
         /\ run'.a = run.a + 1 /\ pc' = "fix2"
     /\ (lastEvent'.op = "fix_batch" /\ ~run.dryRun) =>
         /\ Len(run'.calls) = Len(run.calls) + NumChunks(Len(lastEvent'.ids), DefaultChunkSize)
         /\ pc' \in {"fix2", "fix2b"}]_vars

\* C28: no create request is sent for a name that is in the list fetched; a
\* run sends at most one create request per album name; a create request
\* answered 'name exists' followed by a list that went through returns the id
\* of the album of that name with nothing created and no error; and the local
\* table holds at most one record per account and name
C28_GetOrCreateIdempotent ==
  /\ [](pc \in {"album", "listed"} =>
          \A j, k \in 1..Len(run.calls) : run.calls[j] = run.calls[k] => j = k)
  /\ [](\A x, y \in albums : (x.accountName = y.accountName /\ x.name = y.name) => x = y)
  /\ [][lastEvent'.op = "get_or_create" =>
         LET albumName == lastEvent'.ids[1]
             response == lastEvent'.ids[2]
             o == lastEvent'.outcome
         IN /\ albumName \in run.existingAlbums => (o = "existing" /\ run'.calls = run.calls)
            /\ albumName \notin run.existingAlbums => run'.calls = Append(run.calls, albumName)
            /\ o = "refetched" =>
                 /\ response = "exists"
                 /\ run'.synologyAlbumId = ResolvedAlbumId[albumName]
                 /\ run'.albumsCreated = run.albumsCreated /\ run'.errors = run.errors
                 /\ remoteAlbums' = remoteAlbums
            /\ o \in {"existing", "refetched"} => remoteAlbums' = remoteAlbums]_vars

\* an album created by another process after the list was fetched: the create
\* request was answered 'name exists' and the album was fetched again
C28_Witness ==
  /\ lastEvent.op = "get_or_create" /\ lastEvent.outcome = "refetched"
  /\ run.calls = <<lastEvent.ids[1]>> /\ run.albumsCreated = 0 /\ run.errors = 0
  /\ getAlbumByName(albums, run.acct, lastEvent.ids[1]) # {}

\* C29: under repeated sync runs with a limit, each run selects the earliest
\* pending photos by creationTime, and from some point on the only photos
\* still pending are those whose file is gone
C29_LimitedRunsReachEveryPhoto ==
  /\ [][lastEvent'.op = "sync_start" =>
         \E all \in getPhotosNotBackedUp(photos, run'.acct) :
           run'.queue = IdsOf(ApplyLimit(all, run'.limit))]_vars
  /\ <>[](\A accountName \in GoogleAccounts :
            Ids(NotBackedUpRows(photos, accountName)) \subseteq GoneFiles)

\* four digits
IsYearText(text) == Len(text) = 4 /\ \A k \in 1..4 : text[k] \in Digits

\* a bare year, a year-month, a year-month-day, 'Photos from YYYY' or one of
\* the keyword folders, in any letter case
IsAutoGeneratedName(text) ==
  \/ IsYearText(text)
  \/ Len(text) = 7 /\ IsYearText(SubSeq(text, 1, 4)) /\ text[5] = "-"
       /\ text[6] \in Digits /\ text[7] \in Digits
  \/ Len(text) = 10 /\ IsYearText(SubSeq(text, 1, 4)) /\ text[5] = "-"
       /\ text[6] \in Digits /\ text[7] \in Digits /\ text[8] = "-"
       /\ text[9] \in Digits /\ text[10] \in Digits
  \/ Len(text) = 16 /\ IsYearText(SubSeq(text, 13, 16))
       /\ [k \in 1..12 |-> Fold(text[k])] = <<"p", "h", "o", "t", "o", "s", " ", "f", "r", "o", "m", " ">>
  \/ [k \in 1..Len(text) |-> Fold(text[k])] \in
       {<<"u", "n", "t", "i", "t", "l", "e", "d">>, <<"a", "r", "c", "h", "i", "v", "e">>, <<"t", "r", "a", "s", "h">>, <<"e", "d", "i", "t", "e", "d">>}

\* C30: the label extractAlbumName returns is never an auto-generated name;
\* it is the first folder name under the root unless that name is
\* auto-generated, and a file in the root or under an auto-generated first
\* folder gets no label
C30_NoAutoGeneratedAlbum ==
  lastEvent.op = "extractAlbumName" =>
    LET pathParts == lastEvent.ids
        label == run.albumQueue
    IN /\ \A k \in 1..Len(label) : ~IsAutoGeneratedName(label[k])
       /\ IF pathParts = <<>> \/ IsAutoGeneratedName(pathParts[1])
          THEN label = <<>>
          ELSE label = <<pathParts[1]>>

\* a file two folders deep under 'photos FROM 2024' got no label
C30_Witness ==
  /\ lastEvent.op = "extractAlbumName"
  /\ lastEvent.ids = <<<<"p", "h", "o", "t", "o", "s", " ", "F", "R", "O", "M", " ", "2", "0", "2", "4">>, <<"x">>>>
  /\ run.albumQueue = <<>>

\* indexes of the batches of the run that hold the photo
BatchesHolding(id) == {j \in 1..Len(run.batches) : id \in Range(run.batches[j])}

\* C31: fixAlbumsRetroactively ends for every integer batchSize option, zero
\* and negative values included; no batch is empty, no photo is in two
\* batches, and when the batch loop of an album ends every photo grouped
\* under the album is in exactly one batch
C31_TerminatesAndBatchesPartition ==
  /\ []<>(pc = "idle")
  /\ [](/\ \A j \in 1..Len(run.batches) : run.batches[j] # <<>>
        /\ \A id \in Range(run.queue) : Cardinality(BatchesHolding(id)) <= 1
        /\ (lastEvent.op = "fix_batch" /\ pc = "fix2") =>
              \A id \in Range(run.albumPhotos) : Cardinality(BatchesHolding(id)) = 1)

C31_Witness ==
  /\ lastEvent.op = "fix_batch" /\ pc = "fix2"
  /\ run.batchSizeOption < 0
  /\ Len(run.albumPhotos) = 3
  /\ Len(run.batches) = 3

\* the photo is recorded as a member of the album of its name
IsMember(r) ==
  \E ai \in albumItems, a \in albums :
    /\ ai.photoId = r.id /\ ai.albumId = a.id
    /\ a.name = r.albumName /\ a.accountName = r.accountName

\* C32: under repeated fix-albums runs with a fixed limit, every backed-up
\* album photo of which the library holds an item of the same file name (its
\* lookup and its add_item request succeed at some attempt) is a member of
\* its album from some point on
C32_LimitedFixReachesEveryPhoto ==
  <>[](\A r \in photos : (\E it \in remote : it.filename = r.filename) => IsMember(r))

\* positions before k of a scan holding the digest, or the lower-cased file
\* name and the creation day, of the photo at k
EarlierAlike(scan, k) ==
  {j \in 1..(k - 1) :
     \/ scan[j].hash = scan[k].hash
     \/ FilenameDateKey(scan[j].filename, scan[j].creationTime)
          = FilenameDateKey(scan[k].filename, scan[k].creationTime)}

\* C33: an import puts every scanned photo into exactly one of the classes
\* new, duplicate-in-remote and duplicate-in-batch; a photo that matches a
\* remote record is duplicate-in-remote even when it also matches an earlier
\* photo of the scan; the counters of the three classes add up to
\* totalScanned
C33_ThreeClassesPartitionScan ==
  [][lastEvent'.op = "import" =>
       LET scan == ScanOf(lastEvent'.ids)
           c == ClassifyScan(photos, scan)
           res == ImportResultOf(photos, scan)
       IN /\ \A k \in 1..Len(scan) : ~(IsNew(c, scan[k]) /\ IsDuplicateInRemote(c, scan[k]))
          /\ res.newPhotos = Cardinality({k \in 1..Len(scan) : IsNew(c, scan[k])})
          /\ res.duplicatesInSynology =
               Cardinality({k \in 1..Len(scan) : IsDuplicateInRemote(c, scan[k])})
          /\ res.duplicatesInTakeout =
               Cardinality({k \in 1..Len(scan) : IsDuplicateInBatch(c, scan[k])})
          /\ \A k \in 1..Len(scan) :
               (MatchesRemoteRecord(photos, scan[k]) /\ EarlierAlike(scan, k) # {}) =>
                 IsDuplicateInRemote(c, scan[k])
          /\ res.totalScanned = res.newPhotos + res.duplicatesInSynology + res.duplicatesInTakeout]_vars

\* an import of three photos has put one into each class; the one classed
\* duplicate-in-remote has the content of the first photo of the scan too
C33_Witness ==
  /\ lastEvent.op = "import"
  /\ lastEvent.ids = <<<<"cam", "IMG1.jpg">>, <<"trip", "IMG1.jpg">>, <<"cam", "copy.jpg">>>>
  /\ LET scan == ScanOf(lastEvent.ids)
         res == ImportResultOf(photos, scan)
     IN /\ res.newPhotos = 1 /\ res.duplicatesInSynology = 1 /\ res.duplicatesInTakeout = 1
        /\ MatchesRemoteRecord(photos, scan[3]) /\ 1 \in EarlierAlike(scan, 3)
        /\ TakeoutId(lastEvent.acct, scan[3].hash) \in dupInRemote

\* C34: in every catalog state a record with canBeRemoved set has isBackedUp
\* set and is archive-source: no remote-source record and no pending photo is
\* marked removable
C34_RemovableIsBackedUpArchivePhoto ==
  \A r \in photos : r.canBeRemoved => (r.isBackedUp /\ r.source = "google")

\* after an upload the catalog holds a removable archive photo next to a
\* pending archive photo and a remote-source record, neither removable
C34_Witness ==
  /\ \E r \in photos : r.canBeRemoved /\ r.id \in uploadOK
  /\ \E r \in photos : r.source = "google" /\ ~r.isBackedUp /\ ~r.canBeRemoved
  /\ \E r \in photos : r.source = "synology" /\ r.isBackedUp /\ ~r.canBeRemoved

\* C35: a real run in which every remote call succeeds, started with the
\* options of the dry run that ended just before it (hence from the same
\* catalog and library), ends with the photoIdsFound and the addedToAlbums
\* that the dry run reported
C35_DryRunReportsWhatRealRunDoes ==
  (/\ pc = "fix2" /\ run.a = Len(run.albumQueue)
   /\ ~run.dryRun /\ run.reported # <<>>
   /\ run.reported[1] = run.limit /\ run.reported[2] = run.batchSize /\ run.reported[3])
    => /\ run.reported[4] = run.photoIdsFound
       /\ run.reported[5] = run.addedToAlbums

\* scanResult.photos of a scan that processes the files one by one
SequentialScan(files, unreadable) == SelectSeq(files, LAMBDA f : f \notin unreadable)

\* C36: for every scan concurrency of 1 or more and every order in which the
\* file-processing tasks complete, the scan returns the photos in the order
\* of a one-by-one scan of the same files, and the import that follows
\* classifies them and leaves the catalog as after a one-by-one scan
C36_ScanResultIndependentOfConcurrency ==
  /\ []((lastEvent.op = "scan_return" /\ run.concurrency >= 1) =>
          run.scanned = SequentialScan(run.filesToProcess, run.unreadable))
  /\ [][(lastEvent'.op = "import" /\ run.concurrency >= 1) =>
          LET scan == SequentialScan(run.filesToProcess, run.unreadable)
          IN /\ lastEvent'.ids = [k \in 1..Len(scan) |-> scan[k].filePath]
             /\ ClassifyScan(photos, run.scanned) = ClassifyScan(photos, scan)
             /\ photos' = ImportedCatalog(photos, lastEvent'.acct, scan)]_vars

\* a scan of three files with concurrency 3 whose tasks completed last file
\* first has been imported
C36_Witness ==
  /\ lastEvent.op = "import"
  /\ run.concurrency = 3 /\ Len(run.filesToProcess) = 3
  /\ run.completion = <<3, 2, 1>>
  /\ Len(run.scanned) = 3

\* C37: a call of scanTakeoutFolder returns, for every value of the
\* concurrency option, zero and negative values included, and on return the
\* photos and the per-file errors together are as many as the media files
\* collected
C37_ScanTerminatesAndCountsEveryFile ==
  /\ [](pc \in {"scan", "await"} => <>(lastEvent.op = "scan_return"))
  /\ [](lastEvent.op = "scan_return" =>
          Len(run.scanned) + Len(run.errors) = Len(run.filesToProcess))

====
